---- MODULE Spec2Model ----
(***************************************************************************)
(* Order-driven stock mutation of the inventory backend: order creation,   *)
(* order status update and direct stock adjustment, as implemented by the  *)
(* Express routes over the Mongoose models Product and Order.              *)
(*                                                                         *)
(* Spec   : requests are served one after the other (each handler runs to  *)
(*          its response before the next request starts).                  *)
(* SpecC  : two create-order requests are in flight at once and interleave *)
(*          at the awaits of the handler (every DB read and every save).   *)
(* SpecR  : orders are created and cancelled or delivered, products are    *)
(*          edited, and orders, invoices and reports are read back.        *)
(* SpecE  : the reorder engine is run on a catalog of products with their  *)
(*          30-day sales, its arithmetic being that of JavaScript Numbers. *)
(* SpecS  : time passes and stored orders change status while the sales    *)
(*          series and the reorder suggestions are read.                   *)
(* SpecA  : the AI endpoints wait for the outside AI service while orders  *)
(*          are created and updated; SpecAF adds the fairness of the       *)
(*          handler's own steps.                                           *)
(* SpecU  : two status updates of one stored order are in flight at once.  *)
(* SpecN  : two create-order requests are in flight at once, order.save()  *)
(*          being the count of the pre('save') hook and then the insert.   *)
(***************************************************************************)
EXTENDS Integers, Sequences, FiniteSets, TLC

(* ---------------------------- bounds ----------------------------------- *)
MaxOrders == 1
MaxItems == 2
MaxQty == 2
MaxStock == 3
InitStock == 2

(* ---------------------------- data ------------------------------------- *)
Users == {"u1", "u2"}
Products == {"A", "B"}
\* userId of each stored product document: both belong to u1, u2 owns none
ProductOwner == [p \in Products |-> "u1"]
\* price of each stored product document when the system starts
ProductPrice == [p \in Products |-> IF p = "A" THEN 2 ELSE 3]
\* reorderPoint of each stored product document
ProductReorderPoint == [p \in Products |-> IF p = "A" THEN 1 ELSE 2]
\* "X" is a well-formed id that names no product document
ProductIds == Products \cup {"X"}
\* a string that is no ObjectId
MalformedIds == {"not-an-id"}
\* enum of orderSchema.status
Statuses == {"pending", "processing", "shipped", "delivered", "cancelled"}
\* a status outside the enum, to exercise the validator
StatusInputs == Statuses \cup {"refunded"}
Procs == {1, 2}

VARIABLES
  stock,    \* stock[p]: the committed stock field of product document p
  orders,   \* the order collection, in insertion order (id = position)
  req,      \* the last served request
  resp,     \* the response to it
  pre,      \* when it arrived: the committed stock, the addressed order's status
  procs,    \* the in-flight create-order requests (SpecC)
  price,    \* price[p]: the price field of product document p
  body,     \* the payload of the last read response (SpecR)
  engine,   \* the reorder engine's input catalog and its output (SpecE)
  now,      \* the server's clock, in ticks of DayTicks a day (SpecS)
  ai        \* the request to an AI endpoint in flight or served last (SpecA)

vars == <<stock, orders, req, resp, pre, procs, price, body, engine, now, ai>>

(* ---------------------------- helpers ---------------------------------- *)
\* Product.findOne({_id, userId}) finds a document
ProductFound(id, u) == id \in Products /\ ProductOwner[id] = u

\* mongoose.Types.ObjectId.isValid(id)
ObjectIdIsValid(id) == id \notin MalformedIds

\* Order.findOne({_id, userId}) finds a document
OrderFound(ords, id, u) == id \in 1..Len(ords) /\ ords[id].userId = u

Response(code, kind, product, order) ==
  [code |-> code, kind |-> kind, product |-> product, order |-> order]

\* a served request: the route (op), req.userId, and the route's inputs
\* (req.body.items; req.params.id with req.body.status; req.params.id with
\* req.body.quantity); totalAmount is req.body.totalAmount of a create
\* request and price is req.body.price of a product update, 0 for the other
\* routes
Request(op, u, items, order, status, product, quantity) ==
  [op |-> op, user |-> u, items |-> items, order |-> order, status |-> status,
   product |-> product, quantity |-> quantity, totalAmount |-> 0, price |-> 0]

\* what is remembered of the state a request arrived in
Arrival(st, status) == [stock |-> st, status |-> status]

\* validateOrder: items is a non-empty array, every quantity is an int >= 1
validateOrder(items) ==
  /\ Len(items) >= 1
  /\ \A i \in 1..Len(items) : items[i].quantity >= 1

\* faulty variant of InsufficientStock: the comparison is off by one
InsufficientStockOffByOne(docStock, quantity) == docStock + 1 < quantity

\* product.stock < item.quantity
InsufficientStock(docStock, quantity) == docStock < quantity

\* one iteration of the validation loop of create order, on a product
\* document read from st
CheckItem(st, u, item) ==
  IF ~ObjectIdIsValid(item.product)
    THEN [ok |-> FALSE, resp |-> Response(400, "InvalidProductId", item.product, 0)]
  ELSE IF ~ProductFound(item.product, u)
    THEN [ok |-> FALSE, resp |-> Response(404, "ProductNotFound", item.product, 0)]
  ELSE IF InsufficientStock(st[item.product], item.quantity)
    THEN [ok |-> FALSE, resp |-> Response(400, "InsufficientStock", item.product, 0)]
  ELSE [ok |-> TRUE,
        update |-> [product |-> item.product, stock |-> st[item.product],
                    quantity |-> item.quantity, price |-> price[item.product]]]

\* the validation loop: every item's document is read by its own findOne
RECURSIVE ValidateItems(_, _, _, _, _)
ValidateItems(st, u, items, i, productUpdates) ==
  IF i > Len(items) THEN [ok |-> TRUE, productUpdates |-> productUpdates]
  ELSE LET r == CheckItem(st, u, items[i]) IN
       IF ~r.ok THEN r
       ELSE ValidateItems(st, u, items, i + 1, Append(productUpdates, r.update))

RECURSIVE calculatedTotal(_, _)
calculatedTotal(productUpdates, i) ==
  IF i > Len(productUpdates) THEN 0
  ELSE productUpdates[i].price * productUpdates[i].quantity
       + calculatedTotal(productUpdates, i + 1)

\* faulty variant of OrderData: the line price is stored as the total
OrderDataPriceAsTotal(u, productUpdates) ==
  [userId |-> u,
   status |-> "pending",
   createdAt |-> now,
   totalAmount |-> calculatedTotal(productUpdates, 1),
   items |-> [i \in 1..Len(productUpdates) |->
                [product |-> productUpdates[i].product,
                 quantity |-> productUpdates[i].quantity,
                 price |-> productUpdates[i].price * productUpdates[i].quantity]]]

\* orderData built from productUpdates; createdAt is the timestamp the schema
\* (timestamps: true) sets when the document is saved
OrderData(u, productUpdates) ==
  [userId |-> u,
   status |-> "pending",
   createdAt |-> now,
   totalAmount |-> calculatedTotal(productUpdates, 1),
   items |-> [i \in 1..Len(productUpdates) |->
                [product |-> productUpdates[i].product,
                 quantity |-> productUpdates[i].quantity,
                 price |-> productUpdates[i].price]]]

\* update.product.stock -= update.quantity; await update.product.save():
\* the document read during validation is decremented and its stock field is
\* written back ($set of the modified path, whatever the stored value is by
\* then). The schema's min: 0 validator of save() never fires here: the
\* document's stock was checked to be >= the quantity when it was read.
SaveProductUpdate(st, update) ==
  [st EXCEPT ![update.product] = update.stock - update.quantity]

RECURSIVE SaveProductUpdates(_, _, _)
SaveProductUpdates(st, productUpdates, i) ==
  IF i > Len(productUpdates) THEN st
  ELSE SaveProductUpdates(SaveProductUpdate(st, productUpdates[i]), productUpdates, i + 1)

\* faulty variant of RestoreItem: adds one unit instead of the item quantity
RestoreItemByOne(st, u, item) ==
  IF ProductFound(item.product, u)
    THEN [st EXCEPT ![item.product] = @ + 1]
    ELSE st

\* cancel branch, one item: re-read the product, add the quantity, save
RestoreItem(st, u, item) ==
  IF ProductFound(item.product, u)
    THEN [st EXCEPT ![item.product] = @ + item.quantity]
    ELSE st

RECURSIVE RestoreStock(_, _, _, _)
RestoreStock(st, u, items, i) ==
  IF i > Len(items) THEN st
  ELSE RestoreStock(RestoreItem(st, u, items[i]), u, items, i + 1)

\* faulty variant of DeductStock: an item with insufficient stock is skipped
\* instead of ending the request
RECURSIVE DeductStockNoReturn(_, _, _, _)
DeductStockNoReturn(st, u, items, i) ==
  IF i > Len(items) THEN [ok |-> TRUE, stock |-> st, product |-> "none"]
  ELSE LET item == items[i] IN
       IF ~ProductFound(item.product, u)
            \/ InsufficientStock(st[item.product], item.quantity)
         THEN DeductStockNoReturn(st, u, items, i + 1)
       ELSE DeductStockNoReturn([st EXCEPT ![item.product] = @ - item.quantity],
                                u, items, i + 1)

\* un-cancel branch: per item re-read the product, return on insufficient
\* stock, otherwise subtract the quantity and save
RECURSIVE DeductStock(_, _, _, _)
DeductStock(st, u, items, i) ==
  IF i > Len(items) THEN [ok |-> TRUE, stock |-> st, product |-> "none"]
  ELSE LET item == items[i] IN
       IF ~ProductFound(item.product, u) THEN DeductStock(st, u, items, i + 1)
       ELSE IF InsufficientStock(st[item.product], item.quantity)
         THEN [ok |-> FALSE, stock |-> st, product |-> item.product]
       ELSE DeductStock([st EXCEPT ![item.product] = @ - item.quantity],
                        u, items, i + 1)

\* faulty variant of IsCancel: the old status is not looked at
IsCancelAlways(oldStatus, status) == status = "cancelled"

\* status === 'cancelled' && oldStatus !== 'cancelled'
IsCancel(oldStatus, status) == status = "cancelled" /\ oldStatus # "cancelled"

\* faulty variant of IsUncancel: only a return to pending counts
IsUncancelToPending(oldStatus, status) == oldStatus = "cancelled" /\ status = "pending"

\* oldStatus === 'cancelled' && status !== 'cancelled'
IsUncancel(oldStatus, status) == oldStatus = "cancelled" /\ status # "cancelled"

\* faulty variant of NegativeStock: the comparison is off by one
NegativeStockBelowMinusOne(newStock) == newStock < 0 - 1

\* product.stock < 0 after the delta was added
NegativeStock(newStock) == newStock < 0

(* ---------------------------- initial state ---------------------------- *)
\* the clock counts ticks of half a day: tick t is in calendar day
\* t \div DayTicks; the server is started on the morning of day 40
DayTicks == 2
StartTime == 80

\* no read was answered yet
NoBody == [kind |-> "none"]

\* the reorder engine was not asked
NoEngine == [catalog |-> <<>>, items |-> <<>>, lowStock |-> <<>>, summary |-> [kind |-> "none"]]

\* no request to an AI endpoint was received; TOGETHER_API_KEY is not set
NoAI ==
  [configured |-> FALSE, pc |-> "idle", route |-> "none", user |-> "u1",
   outcome |-> "none", failure |-> "none", resp |-> [code |-> 0, source |-> "none"]]

IdleProc == [pc |-> "idle", user |-> "u1", items |-> <<>>, productUpdates |-> <<>>,
             i |-> 0, order |-> 0, resp |-> Response(0, "none", "none", 0),
             status |-> "none", oldStatus |-> "none", docStock |-> 0,
             orderCount |-> 0]

Init ==
  /\ stock = [p \in Products |-> InitStock]
  /\ orders = <<>>
  /\ resp = Response(0, "none", "none", 0)
  /\ req = Request("none", "u1", <<>>, 0, "none", "none", 0)
  /\ pre = Arrival(stock, "none")
  /\ procs = [pr \in Procs |-> IdleProc]
  /\ price = ProductPrice
  /\ body = NoBody
  /\ engine = NoEngine
  /\ now = StartTime
  /\ ai = NoAI

(* ---------------------------- request inputs --------------------------- *)
\* the prices and totals a client writes into its request body
ClientPrices == {1}
ClientTotals == {0, 4}

Items == [product : ProductIds, quantity : 1..MaxQty, price : ClientPrices]

\* a line item of a request body
Item(id, quantity) ==
  [product |-> id, quantity |-> quantity, price |-> CHOOSE c \in ClientPrices : TRUE]

\* the item lists of create requests: every list of 1..MaxItems items over
\* the ids above, and lists the validator or the id check rejects, alone and
\* ahead of an item that may exceed its stock
ItemLists ==
  UNION {[1..n -> Items] : n \in 1..MaxItems}
    \cup {<<>>,
          <<Item("A", 0)>>,
          <<Item("A", 0), Item("B", MaxQty)>>,
          <<Item("not-an-id", 1)>>,
          <<Item("not-an-id", 1), Item("B", MaxQty)>>}

(* ---------------------------- handlers (Spec) -------------------------- *)
\* router.post('/'): create order (at most MaxOrders orders are created);
\* totalAmount is the total the client sent, which the validator requires to
\* be a number >= 0 and the handler does not read
CreateOrder(u, items, totalAmount) ==
  /\ Len(orders) < MaxOrders
  /\ req' = [Request("create", u, items, 0, "none", "none", 0)
              EXCEPT !.totalAmount = totalAmount]
  /\ pre' = Arrival(stock, "none")
  /\ UNCHANGED <<procs, price, body, engine, now, ai>>
  /\ IF ~validateOrder(items)
       THEN /\ resp' = Response(400, "ValidationError", "none", 0)
            /\ UNCHANGED <<stock, orders>>
     ELSE LET v == ValidateItems(stock, u, items, 1, <<>>) IN
       IF ~v.ok
         THEN /\ resp' = v.resp
              /\ UNCHANGED <<stock, orders>>
         ELSE /\ orders' = Append(orders, OrderData(u, v.productUpdates))
              /\ stock' = SaveProductUpdates(stock, v.productUpdates, 1)
              /\ resp' = Response(201, "OrderCreated", "none", Len(orders) + 1)

\* router.patch('/:id/status'): update order status
UpdateStatus(u, id, status) ==
  /\ req' = Request("status", u, <<>>, id, status, "none", 0)
  /\ pre' = Arrival(stock, IF OrderFound(orders, id, u) THEN orders[id].status ELSE "none")
  /\ UNCHANGED <<procs, price, body, engine, now, ai>>
  /\ IF status \notin Statuses
       THEN /\ resp' = Response(400, "ValidationError", "none", 0)
            /\ UNCHANGED <<stock, orders>>
     ELSE IF ~OrderFound(orders, id, u)
       THEN /\ resp' = Response(404, "OrderNotFound", "none", 0)
            /\ UNCHANGED <<stock, orders>>
     ELSE LET order == orders[id]
              oldStatus == order.status
          IN
       IF IsCancel(oldStatus, status)
         THEN /\ stock' = RestoreStock(stock, u, order.items, 1)
              /\ orders' = [orders EXCEPT ![id].status = status]
              /\ resp' = Response(200, "StatusUpdated", "none", id)
       ELSE IF IsUncancel(oldStatus, status)
         THEN LET d == DeductStock(stock, u, order.items, 1) IN
              /\ stock' = d.stock
              /\ IF d.ok
                   THEN /\ orders' = [orders EXCEPT ![id].status = status]
                        /\ resp' = Response(200, "StatusUpdated", "none", id)
                   ELSE /\ orders' = orders
                        /\ resp' = Response(400, "InsufficientStock", d.product, 0)
       ELSE /\ stock' = stock
            /\ orders' = [orders EXCEPT ![id].status = status]
            /\ resp' = Response(200, "StatusUpdated", "none", id)

\* router.patch('/:id/stock'): direct stock adjustment by quantity (the
\* guard on MaxStock keeps the stock the requests build up finite). The route
\* does not check the id's format: Product.findOne throws a CastError on a
\* malformed id and the catch block answers 500.
AdjustStock(u, id, quantity) ==
  /\ req' = Request("stock", u, <<>>, 0, "none", id, quantity)
  /\ pre' = Arrival(stock, "none")
  /\ UNCHANGED <<orders, procs, price, body, engine, now, ai>>
  /\ IF ~ObjectIdIsValid(id)
       THEN /\ resp' = Response(500, "ServerError", id, 0)
            /\ UNCHANGED stock
     ELSE IF ~ProductFound(id, u)
       THEN /\ resp' = Response(404, "ProductNotFound", id, 0)
            /\ UNCHANGED stock
     ELSE LET newStock == stock[id] + quantity IN
       IF NegativeStock(newStock)
         THEN /\ resp' = Response(400, "InsufficientStock", id, 0)
              /\ UNCHANGED stock
         ELSE /\ newStock <= MaxStock
              /\ stock' = [stock EXCEPT ![id] = newStock]
              /\ resp' = Response(200, "Product", id, 0)

Next ==
  \/ \E u \in Users, items \in ItemLists, totalAmount \in ClientTotals :
       CreateOrder(u, items, totalAmount)
  \/ \E u \in Users, id \in 1..MaxOrders, status \in StatusInputs :
       UpdateStatus(u, id, status)
  \/ \E u \in Users, id \in ProductIds \cup MalformedIds,
        quantity \in (0 - MaxQty)..MaxQty :
       AdjustStock(u, id, quantity)

Spec == Init /\ [][Next]_vars

(* ---------------------------- handlers (SpecC) ------------------------- *)
\* The create-order handler of one in-flight request, one action per await.
\* Items of concurrent requests name stored products or the unknown id.
ConcItemLists ==
  UNION {[1..n -> [product : Products, quantity : 1..MaxQty, price : ClientPrices]] :
           n \in 1..MaxItems}
    \cup {<<>>, <<Item("X", 1)>>}

\* the request arrives: express-validator, then the handler starts its loop
ReceiveCreate(pr, u, items) ==
  /\ procs[pr].pc = "idle"
  /\ procs' = [procs EXCEPT ![pr] =
       IF ~validateOrder(items)
         THEN [@ EXCEPT !.pc = "done", !.user = u, !.items = items,
                        !.resp = Response(400, "ValidationError", "none", 0)]
         ELSE [@ EXCEPT !.pc = "validate", !.user = u, !.items = items, !.i = 1]]
  /\ UNCHANGED <<stock, orders, req, resp, pre, price, body, engine, now, ai>>

\* await Product.findOne(...) of item i, then the checks and the push
FindProduct(pr) ==
  LET me == procs[pr]
      r == CheckItem(stock, me.user, me.items[me.i])
  IN
  /\ me.pc = "validate"
  /\ procs' = [procs EXCEPT ![pr] =
       IF ~r.ok
         THEN [@ EXCEPT !.pc = "done", !.resp = r.resp]
         ELSE [@ EXCEPT !.productUpdates = Append(@, r.update),
                        !.i = IF me.i = Len(me.items) THEN 0 ELSE me.i + 1,
                        !.pc = IF me.i = Len(me.items) THEN "saveOrder" ELSE "validate"]]
  /\ UNCHANGED <<stock, orders, req, resp, pre, price, body, engine, now, ai>>

\* await order.save()
SaveOrder(pr) ==
  LET me == procs[pr] IN
  /\ me.pc = "saveOrder"
  /\ orders' = Append(orders, OrderData(me.user, me.productUpdates))
  /\ procs' = [procs EXCEPT ![pr] =
       [@ EXCEPT !.pc = "saveStock", !.i = 1, !.order = Len(orders) + 1]]
  /\ UNCHANGED <<stock, req, resp, pre, price, body, engine, now, ai>>

\* update.product.stock -= update.quantity; await update.product.save()
SaveProduct(pr) ==
  LET me == procs[pr] IN
  /\ me.pc = "saveStock"
  /\ stock' = SaveProductUpdate(stock, me.productUpdates[me.i])
  /\ procs' = [procs EXCEPT ![pr] =
       [@ EXCEPT !.i = IF me.i = Len(me.productUpdates) THEN 0 ELSE me.i + 1,
                 !.pc = IF me.i = Len(me.productUpdates) THEN "respond" ELSE "saveStock"]]
  /\ UNCHANGED <<orders, req, resp, pre, price, body, engine, now, ai>>

\* await update.product.save() rejects (the write does not reach the
\* database): the catch block answers 500; the order saved before stays
SaveProductFails(pr) ==
  LET me == procs[pr] IN
  /\ me.pc = "saveStock"
  /\ procs' = [procs EXCEPT ![pr] =
       [@ EXCEPT !.pc = "done", !.i = 0,
                 !.resp = Response(500, "CreateFailed", "none", 0)]]
  /\ UNCHANGED <<stock, orders, req, resp, pre, price, body, engine, now, ai>>

\* await Order.findById(order._id); res.status(201)
RespondCreated(pr) ==
  LET me == procs[pr] IN
  /\ me.pc = "respond"
  /\ procs' = [procs EXCEPT ![pr] =
       [@ EXCEPT !.pc = "done", !.resp = Response(201, "OrderCreated", "none", me.order)]]
  /\ UNCHANGED <<stock, orders, req, resp, pre, price, body, engine, now, ai>>

NextC ==
  \/ \E pr \in Procs, u \in Users, items \in ConcItemLists : ReceiveCreate(pr, u, items)
  \/ \E pr \in Procs : FindProduct(pr)
  \/ \E pr \in Procs : SaveOrder(pr)
  \/ \E pr \in Procs : SaveProduct(pr)
  \/ \E pr \in Procs : SaveProductFails(pr)
  \/ \E pr \in Procs : RespondCreated(pr)

SpecC == Init /\ [][NextC]_vars

(* ---------------------------- handlers (SpecR) ------------------------- *)
\* SpecR: orders are created, product documents are edited and orders are
\* read back, one request after the other.

\* the prices and stocks a client writes into a product update
NewPrices == {5, 0 - 1}
NewStocks == {InitStock}

\* validateProduct, of the fields modelled: price is a float >= 0 and stock
\* is an int >= 0
validateProduct(newPrice, newStock) == newPrice >= 0 /\ newStock >= 0

\* router.put('/:id'): Product.findOneAndUpdate({_id, userId}, req.body)
UpdateProduct(u, id, newPrice, newStock) ==
  /\ req' = [Request("update", u, <<>>, 0, "none", id, newStock)
              EXCEPT !.price = newPrice]
  /\ pre' = Arrival(stock, "none")
  /\ UNCHANGED <<orders, procs, body, engine, now, ai>>
  /\ IF ~validateProduct(newPrice, newStock)
       THEN /\ resp' = Response(400, "ValidationError", "none", 0)
            /\ UNCHANGED <<stock, price>>
     ELSE IF ~ObjectIdIsValid(id)
       THEN /\ resp' = Response(400, "InvalidProductId", id, 0)
            /\ UNCHANGED <<stock, price>>
     ELSE IF ~ProductFound(id, u)
       THEN /\ resp' = Response(404, "ProductNotFound", id, 0)
            /\ UNCHANGED <<stock, price>>
     ELSE /\ price' = [price EXCEPT ![id] = newPrice]
          /\ stock' = [stock EXCEPT ![id] = newStock]
          /\ resp' = Response(200, "Product", id, 0)

\* a line item of a fetched order: the stored item with its product path
\* populated; the line amount is the stored price times the quantity
OrderLine(item) ==
  [product |-> item.product, quantity |-> item.quantity, price |-> item.price,
   productPrice |-> price[item.product],
   amount |-> item.price * item.quantity]

\* a line of the invoice: amount = item.quantity * item.product.price
InvoiceLine(item) ==
  [product |-> item.product, quantity |-> item.quantity,
   price |-> price[item.product],
   productPrice |-> price[item.product],
   amount |-> item.quantity * price[item.product]]

\* total += amount over the lines
RECURSIVE total(_, _)
total(lines, i) ==
  IF i > Len(lines) THEN 0 ELSE lines[i].amount + total(lines, i + 1)

\* router.get('/:id'): the order document with items.product populated
GetOrder(u, id) ==
  /\ req' = Request("getOrder", u, <<>>, id, "none", "none", 0)
  /\ pre' = Arrival(stock, IF OrderFound(orders, id, u) THEN orders[id].status ELSE "none")
  /\ UNCHANGED <<stock, orders, procs, price, engine, now, ai>>
  /\ IF ~OrderFound(orders, id, u)
       THEN /\ resp' = Response(404, "OrderNotFound", "none", 0)
            /\ body' = NoBody
       ELSE /\ resp' = Response(200, "Order", "none", id)
            /\ body' = [kind |-> "order", order |-> id,
                        lines |-> [i \in 1..Len(orders[id].items) |->
                                     OrderLine(orders[id].items[i])],
                        total |-> orders[id].totalAmount]

\* router.get('/:id/invoice'): the invoice document of the order
GetInvoice(u, id) ==
  /\ req' = Request("invoice", u, <<>>, id, "none", "none", 0)
  /\ pre' = Arrival(stock, IF OrderFound(orders, id, u) THEN orders[id].status ELSE "none")
  /\ UNCHANGED <<stock, orders, procs, price, engine, now, ai>>
  /\ IF ~OrderFound(orders, id, u)
       THEN /\ resp' = Response(404, "OrderNotFound", "none", 0)
            /\ body' = NoBody
       ELSE LET lines == [i \in 1..Len(orders[id].items) |->
                           InvoiceLine(orders[id].items[i])]
            IN
            /\ resp' = Response(200, "Invoice", "none", id)
            /\ body' = [kind |-> "invoice", order |-> id, lines |-> lines,
                        total |-> total(lines, 1)]

\* orders.reduce((sum, order) => sum + order.totalAmount, 0)
RECURSIVE SumTotalAmount(_, _)
SumTotalAmount(ords, i) ==
  IF i > Len(ords) THEN 0 ELSE ords[i].totalAmount + SumTotalAmount(ords, i + 1)

\* $unwind items, $group by items.product: $sum of f(item) over the line
\* items of product p
RECURSIVE GroupSum(_, _, _, _)
GroupSum(ords, p, quantityOnly, i) ==
  IF i > Len(ords) THEN 0
  ELSE LET items == ords[i].items
           lines == {k \in 1..Len(items) : items[k].product = p}
           RECURSIVE Sum(_)
           Sum(S) == IF S = {} THEN 0
                     ELSE LET k == CHOOSE x \in S : TRUE IN
                          (IF quantityOnly THEN items[k].quantity
                           ELSE items[k].quantity * items[k].price) + Sum(S \ {k})
       IN Sum(lines) + GroupSum(ords, p, quantityOnly, i + 1)

\* the statistics the dashboard computes from the order documents ords and
\* the product documents prods its queries return (the orders of the model
\* are all of the current month; averageOrderValue is kept as the fraction
\* monthlySales / orderCount, 0 for no order; topProducts is kept as a set,
\* its $limit of 5 exceeds the number of products)
DashboardStatistics(ords, prods) ==
  LET monthlyOrders == SelectSeq(ords, LAMBDA o : o.status \in {"delivered", "shipped"})
      monthlySales == SumTotalAmount(monthlyOrders, 1)
      orderCount == Len(monthlyOrders)
      sold == {p \in Products :
                 \E i \in 1..orderCount : \E k \in 1..Len(monthlyOrders[i].items) :
                   monthlyOrders[i].items[k].product = p}
  IN [kind |-> "dashboard",
      sales |-> [monthly |-> monthlySales,
                 orderCount |-> orderCount,
                 averageOrderValue |->
                   IF orderCount = 0 THEN [num |-> 0, den |-> 1]
                   ELSE [num |-> monthlySales, den |-> orderCount]],
      inventory |-> [total |-> Cardinality(prods),
                     lowStock |-> Cardinality({p \in prods : stock[p] <= ProductReorderPoint[p]}),
                     outOfStock |-> Cardinality({p \in prods : stock[p] = 0})],
      topProducts |-> {[name |-> p,
                        quantity |-> GroupSum(monthlyOrders, p, TRUE, 1),
                        revenue |-> GroupSum(monthlyOrders, p, FALSE, 1)] : p \in sold}]

\* the content of the inventory report over the product documents prods
InventoryReport(prods) ==
  [kind |-> "inventory",
   products |-> {[name |-> p, stock |-> stock[p],
                  reorderPoint |-> ProductReorderPoint[p]] : p \in prods},
   totalProducts |-> Cardinality(prods),
   lowStock |-> Cardinality({p \in prods : stock[p] <= ProductReorderPoint[p]}),
   outOfStock |-> Cardinality({p \in prods : stock[p] = 0})]

\* router.get('/dashboard'): Order.find and Product.find carry no userId
GetDashboard(u) ==
  /\ req' = Request("dashboard", u, <<>>, 0, "none", "none", 0)
  /\ pre' = Arrival(stock, "none")
  /\ resp' = Response(200, "Dashboard", "none", 0)
  /\ body' = DashboardStatistics(orders, Products)
  /\ UNCHANGED <<stock, orders, procs, price, engine, now, ai>>

\* router.get('/inventory'): Product.find({}) carries no userId
GetInventoryReport(u) ==
  /\ req' = Request("inventory", u, <<>>, 0, "none", "none", 0)
  /\ pre' = Arrival(stock, "none")
  /\ resp' = Response(200, "InventoryReport", "none", 0)
  /\ body' = InventoryReport(Products)
  /\ UNCHANGED <<stock, orders, procs, price, engine, now, ai>>

\* the statuses the status updates of SpecR ask for
ReadStatusInputs == {"delivered", "cancelled"}

NextR ==
  \/ \E u \in Users, items \in ConcItemLists, totalAmount \in ClientTotals :
       CreateOrder(u, items, totalAmount)
  \/ \E u \in Users, id \in ProductIds \cup MalformedIds,
        newPrice \in NewPrices, newStock \in NewStocks :
       UpdateProduct(u, id, newPrice, newStock)
  \/ \E u \in Users, id \in 1..MaxOrders : GetOrder(u, id)
  \/ \E u \in Users, id \in 1..MaxOrders : GetInvoice(u, id)
  \/ \E u \in Users, id \in 1..MaxOrders, status \in ReadStatusInputs :
       UpdateStatus(u, id, status)
  \/ \E u \in Users : GetDashboard(u)
  \/ \E u \in Users : GetInventoryReport(u)

SpecR == Init /\ [][NextR]_vars

(* ---------------------------- handlers (SpecU) ------------------------- *)
\* SpecU: two status-update requests on the stored order are in flight at
\* once, one action per await of the handler.

\* the request arrives: the validators, then await Order.findOne(...); the
\* handler keeps the document it read, its old status and the branch to take
ReceiveUpdate(pr, u, id, status) ==
  /\ procs[pr].pc = "idle"
  /\ procs' = [procs EXCEPT ![pr] =
       IF status \notin Statuses
         THEN [@ EXCEPT !.pc = "done", !.user = u,
                        !.resp = Response(400, "ValidationError", "none", 0)]
       ELSE IF ~OrderFound(orders, id, u)
         THEN [@ EXCEPT !.pc = "done", !.user = u,
                        !.resp = Response(404, "OrderNotFound", "none", 0)]
       ELSE [@ EXCEPT !.user = u, !.order = id, !.status = status,
                      !.oldStatus = orders[id].status, !.items = orders[id].items,
                      !.i = 1,
                      !.pc = IF IsCancel(orders[id].status, status) THEN "restore"
                             ELSE IF IsUncancel(orders[id].status, status) THEN "deduct"
                             ELSE "saveStatus"]]
  /\ UNCHANGED <<stock, orders, req, resp, pre, price, body, engine, now, ai>>

\* await Product.findOne(...) of item i in the cancel or the un-cancel loop:
\* a product that is not found is skipped, an un-cancel without enough stock
\* is answered 400
FindItemProduct(pr) ==
  LET me == procs[pr]
      item == me.items[me.i]
      last == me.i = Len(me.items)
  IN
  /\ me.pc \in {"restore", "deduct"}
  /\ procs' = [procs EXCEPT ![pr] =
       IF ~ProductFound(item.product, me.user)
         THEN [@ EXCEPT !.i = IF last THEN 0 ELSE me.i + 1,
                        !.pc = IF last THEN "saveStatus" ELSE me.pc]
       ELSE IF me.pc = "deduct" /\ InsufficientStock(stock[item.product], item.quantity)
         THEN [@ EXCEPT !.pc = "done",
                        !.resp = Response(400, "InsufficientStock", item.product, 0)]
       ELSE [@ EXCEPT !.docStock = stock[item.product],
                      !.pc = IF me.pc = "restore" THEN "saveRestored" ELSE "saveDeducted"]]
  /\ UNCHANGED <<stock, orders, req, resp, pre, price, body, engine, now, ai>>

\* product.stock += item.quantity (or -=); await product.save(): the stock
\* field of the document read before is written back
SaveItemProduct(pr) ==
  LET me == procs[pr]
      item == me.items[me.i]
      last == me.i = Len(me.items)
  IN
  /\ me.pc \in {"saveRestored", "saveDeducted"}
  /\ stock' = [stock EXCEPT ![item.product] =
                 IF me.pc = "saveRestored" THEN me.docStock + item.quantity
                 ELSE me.docStock - item.quantity]
  /\ procs' = [procs EXCEPT ![pr] =
       [@ EXCEPT !.i = IF last THEN 0 ELSE me.i + 1,
                 !.pc = IF last THEN "saveStatus"
                        ELSE IF me.pc = "saveRestored" THEN "restore" ELSE "deduct"]]
  /\ UNCHANGED <<orders, req, resp, pre, price, body, engine, now, ai>>

\* await order.save(): the status of the document is written; res.json
SaveStatus(pr) ==
  LET me == procs[pr] IN
  /\ me.pc = "saveStatus"
  /\ orders' = [orders EXCEPT ![me.order].status = me.status]
  /\ procs' = [procs EXCEPT ![pr] =
       [@ EXCEPT !.pc = "done", !.resp = Response(200, "StatusUpdated", "none", me.order)]]
  /\ UNCHANGED <<stock, req, resp, pre, price, body, engine, now, ai>>

\* the stored order of the initial states: u1 ordered one unit of A, or one
\* unit of A and one of B; the order is pending with its stock deducted, or
\* cancelled with its stock restored
StoredOrder(products, status) ==
  [userId |-> "u1", status |-> status, createdAt |-> StartTime,
   totalAmount |-> calculatedTotal(
     [i \in 1..Len(products) |->
        [product |-> products[i], quantity |-> 1, price |-> ProductPrice[products[i]]]], 1),
   items |-> [i \in 1..Len(products) |->
                [product |-> products[i], quantity |-> 1,
                 price |-> ProductPrice[products[i]]]]]

StoredProductLists == {<<"A">>, <<"A", "B">>}

InitU ==
  /\ \E products \in StoredProductLists, status \in {"pending", "cancelled"} :
       /\ orders = <<StoredOrder(products, status)>>
       /\ stock = [p \in Products |->
                     IF status = "cancelled" THEN InitStock
                     ELSE InitStock - GroupSum(orders, p, TRUE, 1)]
  /\ resp = Response(0, "none", "none", 0)
  /\ req = Request("none", "u1", <<>>, 0, "none", "none", 0)
  /\ pre = Arrival(stock, "none")
  /\ procs = [pr \in Procs |-> IdleProc]
  /\ price = ProductPrice
  /\ body = NoBody
  /\ engine = NoEngine
  /\ now = StartTime
  /\ ai = NoAI

\* the statuses the concurrent requests ask for
ConcStatusInputs == {"pending", "delivered", "cancelled", "refunded"}

NextU ==
  \/ \E pr \in Procs, u \in Users, status \in ConcStatusInputs :
       ReceiveUpdate(pr, u, 1, status)
  \/ \E pr \in Procs : FindItemProduct(pr)
  \/ \E pr \in Procs : SaveItemProduct(pr)
  \/ \E pr \in Procs : SaveStatus(pr)

SpecU == InitU /\ [][NextU]_vars

(* ---------------------------- Number arithmetic ------------------------ *)
\* The reorder engine computes with JavaScript Numbers (IEEE 754 binary64,
\* round to nearest, ties to even). Every Number that occurs there is a
\* multiple of 2^-60 of magnitude below 2^30; it is kept exactly, as a sign
\* and a magnitude of NumberLimbs digits in base LimbBase, most significant
\* first, IntLimbs of them ahead of the binary point.
LimbBits == 15
LimbBase == 32768
NumberLimbs == 6
IntLimbs == 2
SignificandBits == 53

ZeroLimbs == [i \in 1..NumberLimbs |-> 0]

\* the magnitude of the integer n, 0 <= n < LimbBase^IntLimbs
IntLimbsOf(n) ==
  [i \in 1..NumberLimbs |->
     IF i <= IntLimbs THEN (n \div (LimbBase ^ (IntLimbs - i))) % LimbBase ELSE 0]

\* 2^k as a magnitude, k counted from the least significant bit
PowerOfTwo(k) ==
  [i \in 1..NumberLimbs |->
     IF i = NumberLimbs - (k \div LimbBits) THEN 2 ^ (k % LimbBits) ELSE 0]

RECURSIVE AddLimbs(_, _, _, _, _)
AddLimbs(x, y, i, carry, acc) ==
  IF i = 0 THEN acc
  ELSE LET v == x[i] + y[i] + carry IN
       AddLimbs(x, y, i - 1, v \div LimbBase, <<v % LimbBase>> \o acc)

\* x - y for x >= y
RECURSIVE SubLimbs(_, _, _, _, _)
SubLimbs(x, y, i, borrow, acc) ==
  IF i = 0 THEN acc
  ELSE LET v == x[i] - y[i] - borrow IN
       SubLimbs(x, y, i - 1, IF v < 0 THEN 1 ELSE 0,
                <<IF v < 0 THEN v + LimbBase ELSE v>> \o acc)

\* x * k for an integer 0 <= k < LimbBase
RECURSIVE TimesLimbs(_, _, _, _, _)
TimesLimbs(x, k, i, carry, acc) ==
  IF i = 0 THEN acc
  ELSE LET v == x[i] * k + carry IN
       TimesLimbs(x, k, i - 1, v \div LimbBase, <<v % LimbBase>> \o acc)

\* x / 2 for an x whose last bit is 0
RECURSIVE HalfLimbs(_, _, _, _)
HalfLimbs(x, i, rem, acc) ==
  IF i > NumberLimbs THEN acc
  ELSE LET v == rem * LimbBase + x[i] IN
       HalfLimbs(x, i + 1, v % 2, Append(acc, v \div 2))

\* -1, 0, 1 as x is below, equal to, above y
RECURSIVE CompareLimbs(_, _, _)
CompareLimbs(x, y, i) ==
  IF i > NumberLimbs THEN 0
  ELSE IF x[i] < y[i] THEN 0 - 1
  ELSE IF x[i] > y[i] THEN 1
  ELSE CompareLimbs(x, y, i + 1)

RECURSIVE BitLength(_)
BitLength(n) == IF n = 0 THEN 0 ELSE 1 + BitLength(n \div 2)

\* the number of bits of x from its leading 1 down to the least significant
LimbsLength(x) ==
  LET nz == {i \in 1..NumberLimbs : x[i] # 0} IN
  IF nz = {} THEN 0
  ELSE LET i == CHOOSE m \in nz : \A n \in nz : m <= n IN
       (NumberLimbs - i) * LimbBits + BitLength(x[i])

\* bit k of x, k counted from the least significant bit
BitOf(x, k) == (x[NumberLimbs - (k \div LimbBits)] \div (2 ^ (k % LimbBits))) % 2

\* x mod 2^d
LowBits(x, d) ==
  [i \in 1..NumberLimbs |->
     IF i > NumberLimbs - (d \div LimbBits) THEN x[i]
     ELSE IF i = NumberLimbs - (d \div LimbBits) THEN x[i] % (2 ^ (d % LimbBits))
     ELSE 0]

\* the binary64 value nearest to the exact result x (plus a positive rest
\* below the last bit when inexact): the bits below the SignificandBits
\* leading ones are rounded off, to nearest, ties to even
RoundToNearest(x, inexact) ==
  LET d == LimbsLength(x) - SignificandBits IN
  IF d <= 0 THEN x
  ELSE LET low == LowBits(x, d)
           c == CompareLimbs(low, PowerOfTwo(d - 1), 1)
           up == c > 0 \/ (c = 0 /\ (inexact \/ BitOf(x, d) = 1))
           down == SubLimbs(x, low, NumberLimbs, 0, <<>>)
       IN IF up THEN AddLimbs(down, PowerOfTwo(d), NumberLimbs, 0, <<>>) ELSE down

\* one step of the schoolbook division of the magnitudes x by y: the next
\* bit of x (a 0 past its last fraction bit) is brought down to the
\* remainder, and the quotient gets the next bit
DivisionStep(x, y, s) ==
  LET bit == IF s.j >= 0 THEN BitOf(x, s.j) ELSE 0
      r2 == [TimesLimbs(s.r, 2, NumberLimbs, 0, <<>>) EXCEPT ![NumberLimbs] = @ + bit]
      q2 == TimesLimbs(s.q, 2, NumberLimbs, 0, <<>>)
  IN IF CompareLimbs(r2, y, 1) >= 0
       THEN [j |-> s.j - 1, q |-> [q2 EXCEPT ![NumberLimbs] = @ + 1],
             r |-> SubLimbs(r2, y, NumberLimbs, 0, <<>>)]
       ELSE [j |-> s.j - 1, q |-> q2, r |-> r2]

\* the steps of the division from state s down to bit position last (the
\* run is halved, so that the evaluation nests only logarithmically deep)
RECURSIVE DivisionSteps(_, _, _, _)
DivisionSteps(x, y, s, last) ==
  IF s.j <= last THEN s
  ELSE IF s.j = last + 1 THEN DivisionStep(x, y, s)
  ELSE DivisionSteps(x, y, DivisionSteps(x, y, s, last + (s.j - last) \div 2), last)

\* the division of x by y # 0: the quotient to the last fraction bit and
\* whether a remainder is left
LongDivision(x, y) ==
  LET s == DivisionSteps(x, y, [j |-> LimbsLength(x) - 1, q |-> ZeroLimbs, r |-> ZeroLimbs],
                         0 - (NumberLimbs - IntLimbs) * LimbBits - 1)
  IN [quotient |-> s.q, inexact |-> s.r # ZeroLimbs]

Number(neg, limbs) == [neg |-> neg /\ limbs # ZeroLimbs, limbs |-> limbs]

\* the Number of a non-negative integer
ToNumber(n) == Number(FALSE, IntLimbsOf(n))

\* a / b
Divide(a, b) ==
  LET d == LongDivision(a.limbs, b.limbs)
  IN Number(a.neg # b.neg, RoundToNearest(d.quotient, d.inexact))

\* a * k for an integer 0 <= k < LimbBase
TimesInt(a, k) ==
  Number(a.neg, RoundToNearest(TimesLimbs(a.limbs, k, NumberLimbs, 0, <<>>), FALSE))

\* a * (h / 2) for an integer 0 <= h < LimbBase: a * 1.5 is Halves(a, 3)
Halves(a, h) ==
  Number(a.neg,
         RoundToNearest(HalfLimbs(TimesLimbs(a.limbs, h, NumberLimbs, 0, <<>>), 1, 0, <<>>),
                        FALSE))

\* a + b
Plus(a, b) ==
  IF a.neg = b.neg
    THEN Number(a.neg, RoundToNearest(AddLimbs(a.limbs, b.limbs, NumberLimbs, 0, <<>>), FALSE))
  ELSE IF CompareLimbs(a.limbs, b.limbs, 1) >= 0
    THEN Number(a.neg, RoundToNearest(SubLimbs(a.limbs, b.limbs, NumberLimbs, 0, <<>>), FALSE))
  ELSE Number(b.neg, RoundToNearest(SubLimbs(b.limbs, a.limbs, NumberLimbs, 0, <<>>), FALSE))

\* a - b
Minus(a, b) == Plus(a, Number(~b.neg, b.limbs))

\* a < b
LessThan(a, b) ==
  IF a.neg # b.neg THEN a.neg
  ELSE IF a.neg THEN CompareLimbs(a.limbs, b.limbs, 1) > 0
  ELSE CompareLimbs(a.limbs, b.limbs, 1) < 0

\* the integer part of the magnitude, and whether a fraction follows it
IntegerPart(limbs) == limbs[1] * LimbBase + limbs[2]
HasFraction(limbs) == \E i \in (IntLimbs + 1)..NumberLimbs : limbs[i] # 0

\* Math.ceil(a), as an integer
MathCeil(a) ==
  IF a.neg THEN 0 - IntegerPart(a.limbs)
  ELSE IntegerPart(a.limbs) + (IF HasFraction(a.limbs) THEN 1 ELSE 0)

\* Math.round(a), as an integer: to nearest, a half goes up
MathRound(a) ==
  IF a.neg
    THEN 0 - (IntegerPart(a.limbs)
              + (IF CompareLimbs(LowBits(a.limbs, (NumberLimbs - IntLimbs) * LimbBits),
                                 PowerOfTwo((NumberLimbs - IntLimbs) * LimbBits - 1), 1) > 0
                   THEN 1 ELSE 0))
    ELSE IntegerPart(a.limbs)
         + (IF a.limbs[IntLimbs + 1] >= LimbBase \div 2 THEN 1 ELSE 0)

\* Math.max(a, b) of integers
MathMax(a, b) == IF a >= b THEN a ELSE b

(* ---------------------------- reorder engine (SpecE) ------------------- *)
\* SpecE: the reorder suggestions of a catalog. A catalog lists the product
\* documents of the requesting user, each with the totalQuantity the sales
\* aggregation of the last 30 days gives for it (0 when it has no sales),
\* the leadTime of its supplier object (0 when it has none) and its price.
SalesWindowDays == 30
DefaultLeadTime == 7
CoverDays == 14
SafetyFactorHalves == 3
SentinelDays == 999
HighDays == 7
MediumDays == 14
ToFixedScale == 100

\* faulty variant of dailySales: the quantity is spread over a week
dailySalesPerWeek(totalQuantity) == Divide(ToNumber(totalQuantity), ToNumber(HighDays))

\* sales.totalQuantity / 30
dailySales(totalQuantity) == Divide(ToNumber(totalQuantity), ToNumber(SalesWindowDays))

\* faulty variant of daysOfStock: no sentinel for a product without sales
daysOfStockNoSentinel(onHand, sales) ==
  IF LessThan(ToNumber(0), sales) THEN Divide(ToNumber(onHand), sales)
  ELSE ToNumber(0)

\* dailySales > 0 ? product.stock / dailySales : (product.stock > 0 ? 999 : 0)
daysOfStock(onHand, sales) ==
  IF LessThan(ToNumber(0), sales) THEN Divide(ToNumber(onHand), sales)
  ELSE IF onHand > 0 THEN ToNumber(SentinelDays)
  ELSE ToNumber(0)

\* product.supplier?.leadTime || 7
leadTime(product) == IF product.leadTime # 0 THEN product.leadTime ELSE DefaultLeadTime

\* Math.ceil(dailySales * leadTime * 1.5)
safetyStock(sales, lead) == MathCeil(Halves(TimesInt(sales, lead), SafetyFactorHalves))

\* Math.max(0, Math.ceil((dailySales * (leadTime + 14)) - product.stock + safetyStock))
recommendedOrder(sales, lead, onHand, safety) ==
  MathMax(0, MathCeil(Plus(Minus(TimesInt(sales, lead + CoverDays), ToNumber(onHand)),
                           ToNumber(safety))))

\* faulty variant of priority: the day thresholds are inclusive
priorityInclusive(onHand, reorderPoint, days) ==
  IF onHand <= reorderPoint \/ ~LessThan(ToNumber(HighDays), days) THEN "high"
  ELSE IF ~LessThan(Halves(ToNumber(reorderPoint), SafetyFactorHalves), ToNumber(onHand))
            \/ ~LessThan(ToNumber(MediumDays), days)
    THEN "medium"
  ELSE "low"

\* faulty variant of priority: high for more than 7 days of stock
priorityDaysAbove(onHand, reorderPoint, days) ==
  IF onHand <= reorderPoint \/ LessThan(ToNumber(HighDays), days) THEN "high"
  ELSE IF ~LessThan(Halves(ToNumber(reorderPoint), SafetyFactorHalves), ToNumber(onHand))
            \/ LessThan(days, ToNumber(MediumDays))
    THEN "medium"
  ELSE "low"

\* the priority of a product, first match
priority(onHand, reorderPoint, days) ==
  IF onHand <= reorderPoint \/ LessThan(days, ToNumber(HighDays)) THEN "high"
  ELSE IF ~LessThan(Halves(ToNumber(reorderPoint), SafetyFactorHalves), ToNumber(onHand))
            \/ LessThan(days, ToNumber(MediumDays))
    THEN "medium"
  ELSE "low"

\* parseFloat(dailySales.toFixed(2)), in hundredths: the nearest multiple of
\* 0.01 of the exact value, a half going up
toFixed(a) ==
  MathRound(Number(a.neg, TimesLimbs(a.limbs, ToFixedScale, NumberLimbs, 0, <<>>)))

\* the element of reorderItems of one product
ReorderItem(product) ==
  LET sales == dailySales(product.totalQuantity)
      days == daysOfStock(product.stock, sales)
      lead == leadTime(product)
      safety == safetyStock(sales, lead)
  IN [currentStock |-> product.stock,
      reorderPoint |-> product.reorderPoint,
      dailySales |-> toFixed(sales),
      daysOfStock |-> MathRound(days),
      recommendedOrder |-> recommendedOrder(sales, lead, product.stock, safety),
      priority |-> priority(product.stock, product.reorderPoint, days)]

\* bounds of the catalogs
MaxSeriesOrders == 2
MaxTime == 81
MaxEngineStock == 16
MaxReorderPoint == 11
MaxQuantity == 6

\* the product documents of the catalogs: every small stock and 30-day
\* quantity, and the values around the thresholds of the documented scenarios
EngineProducts ==
  [stock : 0..MaxEngineStock, reorderPoint : {0, 10, MaxReorderPoint},
   totalQuantity : 0..MaxQuantity \cup {30}, leadTime : {0, 10},
   price : {ProductPrice["A"]}]
    \cup [stock : {0, 5, 15, 23, 34, 35, 50, 69, 70, 100}, reorderPoint : {10, 50},
          totalQuantity : {0, 30, 92, 140, 150, 300}, leadTime : {0, 7},
          price : {ProductPrice["A"]}]

\* the comparator of the sort: priorityOrder[a.priority] - priorityOrder[b.priority]
\* when the priorities differ, a.daysOfStock - b.daysOfStock when they do not
priorityOrder(pr) == IF pr = "high" THEN 0 ELSE IF pr = "medium" THEN 1 ELSE 2

\* faulty variant of compare: the days of stock are not compared
compareTierOnly(a, b) == priorityOrder(a.priority) - priorityOrder(b.priority)

compare(a, b) ==
  IF priorityOrder(a.priority) # priorityOrder(b.priority)
    THEN priorityOrder(a.priority) - priorityOrder(b.priority)
  ELSE a.daysOfStock - b.daysOfStock

\* item.daysOfStock < 14 of the filter
AttentionDays == 14

\* faulty variant of the filter: the recommended order is not looked at
needsAttentionNoOrder(item) ==
  \/ item.currentStock <= item.reorderPoint
  \/ item.daysOfStock < AttentionDays

\* the predicate of reorderItems.filter(...)
needsAttention(item) ==
  \/ item.currentStock <= item.reorderPoint
  \/ item.daysOfStock < AttentionDays
  \/ item.recommendedOrder > 0

filteredItems(reorderItems) == SelectSeq(reorderItems, needsAttention)

\* Array.prototype.sort with the comparator: the sort is stable, an item
\* goes behind every item it does not compare below
RECURSIVE insert(_, _)
insert(sorted, item) ==
  IF sorted = <<>> THEN <<item>>
  ELSE IF compare(item, sorted[Len(sorted)]) < 0
    THEN Append(insert(SubSeq(sorted, 1, Len(sorted) - 1), item), sorted[Len(sorted)])
  ELSE Append(sorted, item)

RECURSIVE sortedItems(_)
sortedItems(items) ==
  IF items = <<>> THEN <<>>
  ELSE insert(sortedItems(SubSeq(items, 1, Len(items) - 1)), items[Len(items)])

\* sortedItems.filter(item => item.priority === pr).length
countPriority(items, pr) == Len(SelectSeq(items, LAMBDA item : item.priority = pr))

\* sortedItems.reduce((sum, item) => sum + (item.currentStock * (item.price || 0)), 0)
RECURSIVE totalValue(_)
totalValue(items) ==
  IF items = <<>> THEN 0
  ELSE totalValue(SubSeq(items, 1, Len(items) - 1))
         + items[Len(items)].currentStock
             * (IF "price" \in DOMAIN items[Len(items)] THEN items[Len(items)].price ELSE 0)

\* the body of the response without products, and the body with products
EmptySuggestions == [kind |-> "empty", totalProducts |-> 0, criticalCount |-> 0]

Suggestions(products, items) ==
  [kind |-> "summary",
   totalProducts |-> Len(products),
   criticalCount |-> countPriority(items, "high"),
   highPriority |-> countPriority(items, "high"),
   mediumPriority |-> countPriority(items, "medium"),
   lowPriority |-> countPriority(items, "low"),
   totalValue |-> totalValue(items)]

\* the catalogs: no product, one product, two products, or three products
PairProducts ==
  [stock : {0, 5, 50, 100}, reorderPoint : {0, 50},
   totalQuantity : {0, 30, 300}, leadTime : {0}, price : {ProductPrice["A"]}]

TripleProducts ==
  [stock : {5, 100, 120, 150}, reorderPoint : {0}, totalQuantity : {300},
   leadTime : {0}, price : {ProductPrice["B"]}]
    \cup [stock : {100}, reorderPoint : {0}, totalQuantity : {0},
          leadTime : {0}, price : {ProductPrice["B"]}]

EngineCatalogs ==
  {<<>>} \cup {<<p>> : p \in EngineProducts} \cup {<<p, q>> : p, q \in PairProducts}
    \cup {<<p, q, r>> : p, q, r \in TripleProducts}

InitE ==
  /\ stock = [p \in Products |-> InitStock]
  /\ orders = <<>>
  /\ resp = Response(0, "none", "none", 0)
  /\ req = Request("none", "u1", <<>>, 0, "none", "none", 0)
  /\ pre = Arrival(stock, "none")
  /\ procs = [pr \in Procs |-> IdleProc]
  /\ price = ProductPrice
  /\ body = NoBody
  /\ engine \in [catalog : EngineCatalogs, items : {<<>>}, lowStock : {<<>>},
                 summary : {[kind |-> "none"]}]
  /\ now = StartTime
  /\ ai = NoAI

\* the answer of the reorder suggestions for the product documents with their
\* sales of the window: without products the short body; with products
\* reorderItems = products.map(...), then the filter, the sort and the summary
suggestionsOf(catalog) ==
  IF catalog = <<>>
    THEN [catalog |-> catalog, items |-> <<>>, lowStock |-> <<>>,
          summary |-> EmptySuggestions]
  ELSE LET reorderItems == [i \in 1..Len(catalog) |-> ReorderItem(catalog[i])]
           listed == sortedItems(filteredItems(reorderItems))
       IN [catalog |-> catalog, items |-> reorderItems, lowStock |-> listed,
           summary |-> Suggestions(catalog, listed)]

\* router.get('/reorder-suggestions') on the catalog of the initial state
GetReorderSuggestions ==
  /\ engine.summary.kind = "none"
  /\ engine' = suggestionsOf(engine.catalog)
  /\ UNCHANGED <<stock, orders, req, resp, pre, procs, price, body, now, ai>>

NextE == GetReorderSuggestions

SpecE == InitE /\ [][NextE]_vars

(* ---------------------------- sales series (SpecS) -------------------- *)
\* SpecS: the order collection holds orders created at different times; their
\* statuses are updated, the clock advances and the sales series and the
\* reorder suggestions are read. The server's time zone is UTC, so that the
\* local day of setHours(0, 0, 0, 0) is the day of $dateToString and of
\* toISOString. body and engine keep the payload of the last read: a series
\* leaves no suggestions and the suggestions leave no series.
TrendDays == 30
WeekBack == 6
WeekDays == 7
MonthDays == 30

\* the calendar day of time t ('%Y-%m-%d'), and the start of that day
Day(t) == t \div DayTicks
StartOfDay(t) == Day(t) * DayTicks

\* faulty variant of SalesStatuses: pending orders are sales
SalesStatusesWithPending == {"delivered", "shipped", "processing", "pending"}

\* status: { $in: ['delivered', 'shipped', 'processing'] }
SalesStatuses == {"delivered", "shipped", "processing"}

\* $match: { createdAt: { $gte: startDate }, status: { $in: ... }, userId }
matchOrders(ords, u, startDate) ==
  SelectSeq(ords, LAMBDA o : /\ o.createdAt >= startDate
                             /\ o.status \in SalesStatuses
                             /\ o.userId = u)

\* $group by the day of createdAt: the group of one day
groupOfDay(matched, date) ==
  LET ofDay == SelectSeq(matched, LAMBDA o : Day(o.createdAt) = date)
  IN [date |-> date, totalSales |-> SumTotalAmount(ofDay, 1), orderCount |-> Len(ofDay)]

\* $sort: { _id: 1 }: the groups of the days in dates, in ascending order
RECURSIVE sortedGroups(_, _)
sortedGroups(matched, dates) ==
  IF dates = {} THEN <<>>
  ELSE LET first == CHOOSE d \in dates : \A e \in dates : d <= e
       IN <<groupOfDay(matched, first)>> \o sortedGroups(matched, dates \ {first})

\* Order.aggregate([$match, $group, $sort]): one group for each day on which
\* a matched order was created
aggregateSales(ords, u, startDate) ==
  LET matched == matchOrders(ords, u, startDate)
  IN sortedGroups(matched, {Day(matched[i].createdAt) : i \in 1..Len(matched)})

\* allDates.map(date => { found = data.find(d => d._id === date); ... }):
\* the group of the date, or zeros
fillDates(data, allDates) ==
  LET found(date) == {k \in 1..Len(data) : data[k].date = date}
  IN [i \in 1..Len(allDates) |->
        IF found(allDates[i]) # {}
          THEN data[CHOOSE k \in found(allDates[i]) : TRUE]
        ELSE [date |-> allDates[i], totalSales |-> 0, orderCount |-> 0]]

Series(route, points) == [kind |-> "series", route |-> route, points |-> points]

\* router.get('/sales-trends'): startDate is the start of the day 30 days
\* back; the groups are returned as they are
GetSalesTrends(u) ==
  /\ req' = Request("sales-trends", u, <<>>, 0, "none", "none", 0)
  /\ pre' = Arrival(stock, "none")
  /\ resp' = Response(200, "SalesTrends", "none", 0)
  /\ body' = Series("sales-trends",
                    aggregateSales(orders, u, StartOfDay(now - TrendDays * DayTicks)))
  /\ engine' = NoEngine
  /\ UNCHANGED <<stock, orders, procs, price, now, ai>>

\* router.get('/weekly-sales'): startDate is 6 days back at the time of day
\* of the request; the 7 dates from startDate on are filled
GetWeeklySales(u) ==
  LET startDate == now - WeekBack * DayTicks
      allDates == [i \in 1..WeekDays |-> Day(startDate + (i - 1) * DayTicks)]
  IN /\ req' = Request("weekly-sales", u, <<>>, 0, "none", "none", 0)
     /\ pre' = Arrival(stock, "none")
     /\ resp' = Response(200, "WeeklySales", "none", 0)
     /\ body' = Series("weekly-sales",
                       fillDates(aggregateSales(orders, u, startDate), allDates))
     /\ engine' = NoEngine
     /\ UNCHANGED <<stock, orders, procs, price, now, ai>>

\* router.get('/monthly-sales'): startDate is one month back at the time of
\* day of the request (the month before has MonthDays days); the dates from
\* startDate to now are filled
GetMonthlySales(u) ==
  LET startDate == now - MonthDays * DayTicks
      allDates == [i \in 1..(MonthDays + 1) |-> Day(startDate + (i - 1) * DayTicks)]
  IN /\ req' = Request("monthly-sales", u, <<>>, 0, "none", "none", 0)
     /\ pre' = Arrival(stock, "none")
     /\ resp' = Response(200, "MonthlySales", "none", 0)
     /\ body' = Series("monthly-sales",
                       fillDates(aggregateSales(orders, u, startDate), allDates))
     /\ engine' = NoEngine
     /\ UNCHANGED <<stock, orders, procs, price, now, ai>>

\* Product.find({ userId }) in insertion order
ProductList == <<"A", "B">>

\* the product documents of u with the totalQuantity of salesData: the
\* orders of the last 30 days ($gte thirtyDaysAgo) in the sales statuses,
\* unwound and grouped by items.product; the products have no supplier
productsWithSales(u) ==
  LET own == SelectSeq(ProductList, LAMBDA p : ProductOwner[p] = u)
      salesData == matchOrders(orders, u, now - SalesWindowDays * DayTicks)
  IN [i \in 1..Len(own) |->
        [stock |-> stock[own[i]],
         reorderPoint |-> ProductReorderPoint[own[i]],
         totalQuantity |-> GroupSum(salesData, own[i], TRUE, 1),
         leadTime |-> 0,
         price |-> price[own[i]]]]

\* router.get('/reorder-suggestions') on the collections
RequestReorderSuggestions(u) ==
  /\ req' = Request("reorder-suggestions", u, <<>>, 0, "none", "none", 0)
  /\ pre' = Arrival(stock, "none")
  /\ resp' = Response(200, "ReorderSuggestions", "none", 0)
  /\ engine' = suggestionsOf(productsWithSales(u))
  /\ body' = NoBody
  /\ UNCHANGED <<stock, orders, procs, price, now, ai>>

\* time passes (up to MaxTime)
Tick ==
  /\ now < MaxTime
  /\ now' = now + 1
  /\ UNCHANGED <<stock, orders, req, resp, pre, procs, price, body, engine, ai>>

\* the orders of the initial states: u1 ordered one unit of A today, 6 days
\* ago, 30 days ago or on the evening 31 days ago, and in some states one
\* unit of B today; the orders are pending and their stock is deducted
SeriesTimes ==
  {StartTime, StartTime - WeekBack * DayTicks, StartTime - TrendDays * DayTicks,
   StartTime - (TrendDays + 1) * DayTicks + 1}

SeriesOrder(p, t) ==
  [userId |-> ProductOwner[p], status |-> "pending", createdAt |-> t,
   totalAmount |-> ProductPrice[p],
   items |-> <<[product |-> p, quantity |-> 1, price |-> ProductPrice[p]]>>]

SeriesOrders ==
  {<<>>} \cup {<<SeriesOrder("A", t)>> : t \in SeriesTimes}
    \cup {<<SeriesOrder("A", t), SeriesOrder("B", StartTime)>> : t \in SeriesTimes}

InitS ==
  /\ orders \in SeriesOrders
  /\ stock = [p \in Products |-> InitStock - GroupSum(orders, p, TRUE, 1)]
  /\ resp = Response(0, "none", "none", 0)
  /\ req = Request("none", "u1", <<>>, 0, "none", "none", 0)
  /\ pre = Arrival(stock, "none")
  /\ procs = [pr \in Procs |-> IdleProc]
  /\ price = ProductPrice
  /\ body = NoBody
  /\ engine = NoEngine
  /\ now = StartTime
  /\ ai = NoAI

\* the statuses the status updates of SpecS ask for
SeriesStatusInputs == {"processing", "delivered", "cancelled"}

NextS ==
  \/ \E id \in 1..MaxSeriesOrders, status \in SeriesStatusInputs :
       UpdateStatus("u1", id, status)
  \/ Tick
  \/ \E u \in Users : GetSalesTrends(u)
  \/ \E u \in Users : GetWeeklySales(u)
  \/ \E u \in Users : GetMonthlySales(u)
  \/ \E u \in Users : RequestReorderSuggestions(u)

SpecS == InitS /\ [][NextS]_vars

(* ---------------------------- order numbers (SpecN) ------------------- *)
\* SpecN: two create-order requests in flight at once, with await
\* order.save() taken apart into the count of the pre('save') hook and the
\* insert that follows it. The orders of this specification carry the
\* orderNumber the hook gives them. The unique index on orderNumber is the
\* one Mongoose builds from the schema when the model is compiled.

\* year and month of time t ('YYMM'), on a calendar of months of MonthDays days
YearMonth(t) == Day(t) \div MonthDays

\* `ORD-${year}${month}-${(orderCount+1).toString().padStart(4, '0')}`: the
\* string is determined by, and determines, the period and the sequence number
\* (padStart pads and never truncates)
orderNumber(t, orderCount) == [period |-> YearMonth(t), sequence |-> orderCount + 1]

\* the order document with the order number of the hook
NumberedOrder(u, productUpdates, orderCount) ==
  [userId |-> u,
   status |-> "pending",
   createdAt |-> now,
   totalAmount |-> calculatedTotal(productUpdates, 1),
   items |-> OrderData(u, productUpdates).items,
   orderNumber |-> orderNumber(now, orderCount)]

\* some stored order has the order number: the unique index rejects the insert
DuplicateKey(ords, number) == \E i \in 1..Len(ords) : ords[i].orderNumber = number

\* pre('save'): const orderCount = await mongoose.model('Order').countDocuments({})
CountOrders(pr) ==
  LET me == procs[pr] IN
  /\ me.pc = "saveOrder"
  /\ procs' = [procs EXCEPT ![pr] =
       [@ EXCEPT !.pc = "insertOrder", !.orderCount = Len(orders)]]
  /\ UNCHANGED <<stock, orders, req, resp, pre, price, body, engine, now, ai>>

\* the insert of order.save(): a duplicate orderNumber makes it reject with a
\* duplicate-key error, which is no ValidationError: the catch block answers
\* 500; otherwise the order is stored and the handler goes on to the stock
InsertOrder(pr) ==
  LET me == procs[pr]
      order == NumberedOrder(me.user, me.productUpdates, me.orderCount)
  IN
  /\ me.pc = "insertOrder"
  /\ IF DuplicateKey(orders, order.orderNumber)
       THEN /\ procs' = [procs EXCEPT ![pr] =
                 [@ EXCEPT !.pc = "done", !.i = 0,
                           !.resp = Response(500, "CreateFailed", "none", 0)]]
            /\ UNCHANGED orders
       ELSE /\ orders' = Append(orders, order)
            /\ procs' = [procs EXCEPT ![pr] =
                 [@ EXCEPT !.pc = "saveStock", !.i = 1, !.order = Len(orders) + 1]]
  /\ UNCHANGED <<stock, req, resp, pre, price, body, engine, now, ai>>

NextN ==
  \/ \E pr \in Procs, u \in Users, items \in ConcItemLists : ReceiveCreate(pr, u, items)
  \/ \E pr \in Procs : FindProduct(pr)
  \/ \E pr \in Procs : CountOrders(pr)
  \/ \E pr \in Procs : InsertOrder(pr)
  \/ \E pr \in Procs : SaveProduct(pr)
  \/ \E pr \in Procs : RespondCreated(pr)

SpecN == Init /\ [][NextN]_vars

(* ---------------------------- AI endpoints (SpecA) -------------------- *)
\* SpecA: requests to the endpoints that call the AI service are served next
\* to order requests. A handler that awaits the service (axios.post) yields:
\* other requests are served until the service answers, and the handler
\* continues with the answer. The service answers with a text that passes
\* validateAIResponse ("valid"), with another text ("invalid"), or the call
\* fails ("error"); it may also not answer. One request to an AI endpoint is
\* followed at a time.
AIOutcomes == {"valid", "invalid", "error"}

\* req.body.reportType and req.body.data of /analyze: a missing value, the
\* series of a report, or an object that is no array
ReportTypes == {"none", "weekly-sales"}
ReportData == {"none", "series", "malformed"}

\* the response of an AI endpoint: the status and the source of the analysis
AIResponse(code, source) == [code |-> code, source |-> source]

\* the handler of route ends with response r; failure names the failure of
\* the AI call the handler met, if any
Answered(route, u, failure, r) ==
  [ai EXCEPT !.pc = "done", !.route = route, !.user = u, !.outcome = "none",
             !.failure = failure, !.resp = r]

\* the handler of route awaits the AI service
Awaiting(route, u) ==
  [ai EXCEPT !.pc = "waiting", !.route = route, !.user = u, !.outcome = "none",
             !.failure = "none", !.resp = AIResponse(0, "none")]

\* router.post('/analyze') up to the call of the AI service: 400 without
\* reportType or data; generateFallbackReport throws on data that is no
\* array and the catch block answers the safe response; without API key the
\* fallback report is the answer
ReceiveAnalyze(u, reportType, data) ==
  /\ ai.pc \in {"idle", "done"}
  /\ ai' = IF reportType = "none" \/ data = "none"
             THEN Answered("analyze", u, "none", AIResponse(400, "none"))
           ELSE IF data = "malformed"
             THEN Answered("analyze", u, "none", AIResponse(200, "error"))
           ELSE IF ~ai.configured
             THEN Answered("analyze", u, "unconfigured", AIResponse(200, "fallback"))
           ELSE Awaiting("analyze", u)
  /\ UNCHANGED <<stock, orders, req, resp, pre, procs, price, body, engine, now>>

\* router.get('/predict/sales/:productId') up to the call of the AI service:
\* a malformed id makes findOne throw (500), an unknown product is 404;
\* without API key checkAIService throws inside predictWithTogetherAI and the
\* catch block of the route answers 500
ReceivePredict(u, id) ==
  /\ ai.pc \in {"idle", "done"}
  /\ ai' = IF ~ObjectIdIsValid(id)
             THEN Answered("predict", u, "none", AIResponse(500, "none"))
           ELSE IF ~ProductFound(id, u)
             THEN Answered("predict", u, "none", AIResponse(404, "none"))
           ELSE IF ~ai.configured
             THEN Answered("predict", u, "unconfigured", AIResponse(500, "none"))
           ELSE Awaiting("predict", u)
  /\ UNCHANGED <<stock, orders, req, resp, pre, procs, price, body, engine, now>>

\* the AI service answers the pending call
AIAnswers(outcome) ==
  /\ ai.pc = "waiting"
  /\ ai' = [ai EXCEPT !.pc = "answered", !.outcome = outcome]
  /\ UNCHANGED <<stock, orders, req, resp, pre, procs, price, body, engine, now>>

\* /analyze after the call: the validated analysis, or the fallback report
\* when validateAIResponse gives null or the call threw
analyzeResponse(outcome) ==
  IF outcome = "valid" THEN AIResponse(200, "ai") ELSE AIResponse(200, "fallback")

\* /predict/sales after the call: res.json(aiAnalysis) with the text of the
\* service, or 500 from the catch block when the call threw
predictResponse(outcome) ==
  IF outcome = "error" THEN AIResponse(500, "none") ELSE AIResponse(200, "ai")

\* the handler continues after the await and responds
Respond ==
  /\ ai.pc = "answered"
  /\ ai' = [ai EXCEPT !.pc = "done",
                      !.failure = IF ai.outcome = "valid" THEN "none" ELSE ai.outcome,
                      !.resp = IF ai.route = "analyze" THEN analyzeResponse(ai.outcome)
                               ELSE predictResponse(ai.outcome)]
  /\ UNCHANGED <<stock, orders, req, resp, pre, procs, price, body, engine, now>>

\* the initial states: the API key is set or not
InitA ==
  /\ stock = [p \in Products |-> InitStock]
  /\ orders = <<>>
  /\ resp = Response(0, "none", "none", 0)
  /\ req = Request("none", "u1", <<>>, 0, "none", "none", 0)
  /\ pre = Arrival(stock, "none")
  /\ procs = [pr \in Procs |-> IdleProc]
  /\ price = ProductPrice
  /\ body = NoBody
  /\ engine = NoEngine
  /\ now = StartTime
  /\ ai \in {[NoAI EXCEPT !.configured = c] : c \in BOOLEAN}

NextA ==
  \/ \E u \in Users, reportType \in ReportTypes, data \in ReportData :
       ReceiveAnalyze(u, reportType, data)
  \/ \E u \in Users, id \in ProductIds \cup MalformedIds : ReceivePredict(u, id)
  \/ \E outcome \in AIOutcomes : AIAnswers(outcome)
  \/ Respond
  \/ \E items \in ConcItemLists : CreateOrder("u1", items, 0)
  \/ \E status \in ReadStatusInputs : UpdateStatus("u1", 1, status)

SpecA == InitA /\ [][NextA]_vars

\* the handlers run when they can: a handler whose call was answered
\* continues; nothing makes the AI service answer
SpecAF == SpecA /\ WF_vars(Respond)

(* ---------------------------- properties ------------------------------- *)
\* total quantity of product p over the line items
RECURSIVE OrderedQty(_, _)
OrderedQty(items, p) ==
  IF items = <<>> THEN 0
  ELSE (IF Head(items).product = p THEN Head(items).quantity ELSE 0)
       + OrderedQty(Tail(items), p)

\* the line items whose quantity exceeds the stock st of their product
ExceedingItems(u, items, st) ==
  {i \in 1..Len(items) : /\ ProductFound(items[i].product, u)
                         /\ items[i].quantity > st[items[i].product]}

\* the line items that name no product of user u
UnknownItems(u, items) ==
  {i \in 1..Len(items) : ObjectIdIsValid(items[i].product)
                           /\ ~ProductFound(items[i].product, u)}

\* the line items whose product id is malformed
MalformedItems(items) == {i \in 1..Len(items) : ~ObjectIdIsValid(items[i].product)}

Min(S) == CHOOSE x \in S : \A y \in S : x <= y

\* C1: every product's committed stock is >= 0 in every reachable state
StockNonNegative == \A p \in Products : stock[p] >= 0

\* an accepted order took the last units of a product
C1_Witness ==
  /\ req.op = "create" /\ resp.code = 201
  /\ \E p \in Products : stock[p] = 0 /\ pre.stock[p] > 0

\* C2 (as claimed): a create with a line item whose quantity exceeds its
\* product's stock fails with an insufficient-stock error naming such a
\* product, persists no order and changes no stock
C2_CreateFailsInsufficient ==
  [][(req'.op = "create" /\ ExceedingItems(req'.user, req'.items, stock) # {})
       => /\ resp'.code = 400 /\ resp'.kind = "InsufficientStock"
          /\ \E i \in ExceedingItems(req'.user, req'.items, stock) :
               resp'.product = req'.items[i].product
          /\ orders' = orders
          /\ stock' = stock]_vars

\* C2 (amended): such a create persists no order and changes no stock; a
\* request the validator rejects fails with a validation error, any other
\* fails on its first line item that exceeds its stock, names no product of
\* the user or has a malformed id: with the insufficient-stock error naming
\* the product, the not-found error or the invalid-id error respectively
C2_CreateAllOrNothing ==
  [][(req'.op = "create" /\ ExceedingItems(req'.user, req'.items, stock) # {})
       => LET items == req'.items
              k == Min(ExceedingItems(req'.user, items, stock)
                         \cup UnknownItems(req'.user, items)
                         \cup MalformedItems(items))
          IN
          /\ orders' = orders
          /\ stock' = stock
          /\ resp' = IF \E i \in 1..Len(items) : items[i].quantity < 1
                       THEN Response(400, "ValidationError", "none", 0)
                     ELSE IF k \in MalformedItems(items)
                       THEN Response(400, "InvalidProductId", items[k].product, 0)
                     ELSE IF k \in UnknownItems(req'.user, items)
                       THEN Response(404, "ProductNotFound", items[k].product, 0)
                     ELSE Response(400, "InsufficientStock", items[k].product, 0)]_vars

\* a two-item create was rejected for its second item, the first one having
\* enough stock, and nothing changed
C2_Witness ==
  /\ req.op = "create" /\ Len(req.items) = 2
  /\ req.items[1].product # req.items[2].product
  /\ ProductFound(req.items[1].product, req.user)
  /\ resp.kind = "InsufficientStock" /\ resp.product = req.items[2].product
  /\ stock = pre.stock /\ orders = <<>>

\* C3: an accepted create decreases each product's stock by the sum of the
\* quantities of the order's line items that reference it
C3_CreateDecrementsByOrdered ==
  [][(req'.op = "create" /\ resp'.code = 201)
       => \A p \in Products : stock'[p] = stock[p] - OrderedQty(req'.items, p)]_vars

\* no order has two line items of one product
NoDuplicateItems ==
  \A o \in 1..Len(orders) : \A i, j \in 1..Len(orders[o].items) :
    orders[o].items[i].product = orders[o].items[j].product => i = j

RECURSIVE AcceptedQty(_, _)
AcceptedQty(ords, p) ==
  IF ords = <<>> THEN 0 ELSE OrderedQty(Head(ords).items, p) + AcceptedQty(Tail(ords), p)

\* C4: once two concurrent creates are answered, the accepted quantities of
\* a product do not exceed its initial stock and its stock is the initial
\* stock minus the accepted quantities
C4_ConcurrentCreatesAtomic ==
  ((\A pr \in Procs : procs[pr].pc = "done" /\ procs[pr].resp.code # 500)
     /\ NoDuplicateItems)
    => \A p \in Products :
         /\ AcceptedQty(orders, p) <= InitStock
         /\ stock[p] = InitStock - AcceptedQty(orders, p)

\* C5: cancelling an order right after its creation restores the stock the
\* create started from
C5_CreateThenCancelRestores ==
  [][(/\ req.op = "create" /\ resp.code = 201
      /\ req'.op = "status" /\ req'.user = req.user /\ req'.order = resp.order
      /\ req'.status = "cancelled" /\ resp'.code = 200)
       => stock' = pre.stock]_vars

\* C6: a status update of a non-cancelled order to cancelled adds to every
\* product the quantities of the order's line items that reference it and
\* stores the status cancelled
C6_CancelRestoresStock ==
  [][(/\ req'.op = "status" /\ req'.status = "cancelled"
      /\ OrderFound(orders, req'.order, req'.user)
      /\ orders[req'.order].status # "cancelled")
       => /\ \A p \in Products :
               stock'[p] = stock[p] + OrderedQty(orders[req'.order].items, p)
          /\ orders'[req'.order].status = "cancelled"
          /\ resp'.code = 200]_vars

\* a delivered order of two line items was cancelled
C6_Witness ==
  /\ req.op = "status" /\ req.status = "cancelled" /\ pre.status = "delivered"
  /\ resp.code = 200
  /\ Len(orders[req.order].items) = 2
  /\ orders[req.order].status = "cancelled"
  /\ stock # pre.stock

\* C7: an un-cancel while some line item's quantity exceeds its product's
\* stock fails with an insufficient-stock error and the stored status stays
\* cancelled
C7_UncancelRejected ==
  [][(/\ req'.op = "status" /\ req'.status \in Statuses \ {"cancelled"}
      /\ OrderFound(orders, req'.order, req'.user)
      /\ orders[req'.order].status = "cancelled"
      /\ ExceedingItems(req'.user, orders[req'.order].items, stock) # {})
       => /\ resp'.code = 400 /\ resp'.kind = "InsufficientStock"
          /\ orders' = orders]_vars

\* an un-cancel was rejected and the order is still cancelled
C7_Witness ==
  /\ req.op = "status" /\ req.status # "cancelled" /\ pre.status = "cancelled"
  /\ resp.kind = "InsufficientStock"
  /\ orders[req.order].status = "cancelled"

\* C8: a status update rejected for insufficient stock leaves the stock of
\* every product as it was (stated for orders whose line items reference
\* distinct products)
C8_RejectedUncancelChangesNothing ==
  [][(req'.op = "status" /\ resp'.kind = "InsufficientStock" /\ NoDuplicateItems)
       => stock' = stock]_vars

\* C9: a status update between two non-cancelled statuses, or from cancelled
\* to cancelled, leaves every stock unchanged
C9_OtherTransitionsKeepStock ==
  [][(/\ req'.op = "status" /\ req'.status \in Statuses
      /\ OrderFound(orders, req'.order, req'.user)
      /\ (orders[req'.order].status = "cancelled") <=> (req'.status = "cancelled"))
       => stock' = stock /\ resp'.code = 200]_vars

\* a delivered order was set back to pending
C9_Witness ==
  /\ req.op = "status" /\ req.status = "pending" /\ pre.status = "delivered"
  /\ resp.code = 200 /\ orders[req.order].status = "pending"

\* C10: pending -> cancelled -> processing with nothing in between: the cancel
\* added the ordered quantities, the reactivation takes them off again, and
\* the stock is the one before the cancel
C10_CancelThenReactivate ==
  [][(/\ req.op = "status" /\ req.status = "cancelled" /\ pre.status = "pending"
      /\ resp.code = 200
      /\ req'.op = "status" /\ req'.user = req.user /\ req'.order = req.order
      /\ req'.status = "processing")
       => /\ \A p \in Products :
               /\ stock[p] = pre.stock[p] + OrderedQty(orders[req.order].items, p)
               /\ stock'[p] = stock[p] - OrderedQty(orders[req.order].items, p)
          /\ stock' = pre.stock
          /\ resp'.code = 200
          /\ orders'[req.order].status = "processing"]_vars

\* a cancelled order was reactivated to processing and its quantities taken
\* off the stock
C10_Witness ==
  /\ req.op = "status" /\ req.status = "processing" /\ pre.status = "cancelled"
  /\ resp.code = 200 /\ orders[req.order].status = "processing"
  /\ \A p \in Products :
       stock[p] = pre.stock[p] - OrderedQty(orders[req.order].items, p)
  /\ stock # pre.stock

\* C11: a stored non-cancelled order has the quantity of each of its line
\* items taken off its product's stock. Stated of the states in which a single
\* create request was received and has been answered, whatever the answer,
\* for orders whose line items reference distinct products.
C11_StoredOrderIsDeducted ==
  (/\ \E pr \in Procs : /\ procs[pr].pc = "done"
                       /\ \A other \in Procs \ {pr} : procs[other].pc = "idle"
   /\ NoDuplicateItems)
    => \A o \in 1..Len(orders) :
         orders[o].status # "cancelled"
           => \A i \in 1..Len(orders[o].items) :
                stock[orders[o].items[i].product]
                  = InitStock - orders[o].items[i].quantity

\* sum over the line items of price x quantity
RECURSIVE LinesTotal(_)
LinesTotal(items) ==
  IF items = <<>> THEN 0
  ELSE Head(items).price * Head(items).quantity + LinesTotal(Tail(items))

\* C12: every persisted order's totalAmount is the sum over its line items of
\* stored price x quantity; an accepted create stores, per requested line
\* item, the product's price at creation and the requested quantity, whatever
\* total and item prices the request carried
C12_ServerComputedTotal ==
  /\ [](\A o \in 1..Len(orders) : orders[o].totalAmount = LinesTotal(orders[o].items))
  /\ [][(req'.op = "create" /\ resp'.code = 201)
          => LET o == orders'[resp'.order] IN
             /\ Len(o.items) = Len(req'.items)
             /\ \A i \in 1..Len(o.items) :
                  /\ o.items[i].product = req'.items[i].product
                  /\ o.items[i].quantity = req'.items[i].quantity
                  /\ o.items[i].price = price[req'.items[i].product]
             /\ o.totalAmount = LinesTotal(o.items)]_vars

\* an order of two products was accepted whose request carried a total and
\* item prices that differ from the stored ones
C12_Witness ==
  /\ req.op = "create" /\ resp.code = 201 /\ Len(req.items) = 2
  /\ req.items[1].product # req.items[2].product
  /\ req.totalAmount # orders[resp.order].totalAmount
  /\ \A i \in 1..2 : req.items[i].price # orders[resp.order].items[i].price
  /\ orders[resp.order].totalAmount
       = price[req.items[1].product] * req.items[1].quantity
         + price[req.items[2].product] * req.items[2].quantity

\* C13: every read of an order (fetch and invoice alike) reports, per line
\* item, the stored item price and the amount stored price x quantity, and a
\* total equal to the order's totalAmount, whatever the products' prices
\* have become since
C13_ReadsUseSnapshot ==
  body.kind \in {"order", "invoice"}
    => LET o == orders[body.order] IN
       /\ Len(body.lines) = Len(o.items)
       /\ \A i \in 1..Len(o.items) :
            /\ body.lines[i].price = o.items[i].price
            /\ body.lines[i].amount = o.items[i].price * o.items[i].quantity
       /\ body.total = o.totalAmount

\* the order documents and the product documents of user u
OwnOrders(u) == SelectSeq(orders, LAMBDA o : o.userId = u)
OwnProducts(u) == {p \in Products : ProductOwner[p] = u}

\* C14: what a request of user u is answered does not depend on the documents
\* of the other users (a report is the report over u's own documents, an
\* order read answers with an order of u), and a request of u changes no
\* product and no order of another user
C14_OwnershipScoping ==
  /\ [](req.op = "dashboard"
          => body = DashboardStatistics(OwnOrders(req.user), OwnProducts(req.user)))
  /\ [](req.op = "inventory" => body = InventoryReport(OwnProducts(req.user)))
  /\ []((req.op \in {"getOrder", "invoice"} /\ resp.code = 200)
          => orders[resp.order].userId = req.user)
  /\ [][/\ \A p \in Products :
            (stock'[p] # stock[p] \/ price'[p] # price[p]) => ProductOwner[p] = req'.user
        /\ \A o \in 1..Len(orders') :
            (o > Len(orders) \/ orders'[o] # orders[o]) => orders'[o].userId = req'.user]_vars

\* C15: a stock adjustment by d of a product of the requesting user sets the
\* stock to stock + d and returns the product when stock + d >= 0, and fails
\* with the insufficient-stock error leaving the stock as it was when
\* stock + d < 0; for any other product id it fails with the not-found error
\* and nothing changes
C15_AdjustStock ==
  [][req'.op = "stock"
       => LET id == req'.product
              d == req'.quantity
          IN
          /\ orders' = orders
          /\ IF ProductFound(id, req'.user)
               THEN IF stock[id] + d >= 0
                      THEN /\ stock' = [stock EXCEPT ![id] = stock[id] + d]
                           /\ resp' = Response(200, "Product", id, 0)
                      ELSE /\ stock' = stock
                           /\ resp' = Response(400, "InsufficientStock", id, 0)
               ELSE /\ stock' = stock
                    /\ resp' = Response(404, "ProductNotFound", id, 0)]_vars

(* ---------------------------- properties of the reorder engine -------- *)
\* The claims state the engine's results in exact arithmetic: the days of
\* stock of product p are 30 * stock / totalQuantity, compared here by cross
\* multiplication, or the sentinel for a product without sales.

\* the catalog entries the engine was run on
Suggested == 1..Len(engine.items)

\* days of stock of p below d days
DaysBelow(p, d) ==
  IF p.totalQuantity > 0 THEN SalesWindowDays * p.stock < d * p.totalQuantity
  ELSE IF p.stock > 0 THEN SentinelDays < d
  ELSE 0 < d

\* C16: for a product without sales in the window the recommended order is
\* 0, the reported days of stock are 999 with stock and 0 without, and the
\* priority is high when the stock is at or below the reorder point
C16_ZeroDemand ==
  \A i \in Suggested :
    LET p == engine.catalog[i]
        item == engine.items[i]
    IN p.totalQuantity = 0
         => /\ item.dailySales = 0
            /\ item.recommendedOrder = 0
            /\ item.daysOfStock = (IF p.stock > 0 THEN 999 ELSE 0)
            /\ (p.stock <= p.reorderPoint => item.priority = "high")

\* scenario A: stock 5, reorder point 10, no sales gives high, 999, 0
C16_Witness ==
  /\ engine.catalog = <<[stock |-> 5, reorderPoint |-> 10, totalQuantity |-> 0,
                       leadTime |-> 0, price |-> 2]>>
  /\ Len(engine.items) = 1
  /\ engine.items[1].priority = "high"
  /\ engine.items[1].daysOfStock = 999
  /\ engine.items[1].recommendedOrder = 0

\* the least integer >= a / b, for b > 0
CeilDiv(a, b) == (a + b - 1) \div b

\* the lead time of p: the supplier's, 7 when it gives none
LeadTimeOf(p) == IF p.leadTime = 0 THEN 7 ELSE p.leadTime

\* ceil(dailySales * leadTime * 1.5) with dailySales = totalQuantity / 30
ExactSafetyStock(p) == CeilDiv(p.totalQuantity * LeadTimeOf(p) * 3, 30 * 2)

\* max(0, ceil(dailySales * (leadTime + 14) - stock + safetyStock))
ExactRecommendedOrder(p) ==
  LET r == CeilDiv(p.totalQuantity * (LeadTimeOf(p) + 14), 30) - p.stock + ExactSafetyStock(p)
  IN IF r > 0 THEN r ELSE 0

\* C17: the recommended order of every product is
\* max(0, ceil(dailySales * (leadTime + 14) - stock + safetyStock)) with
\* safetyStock = ceil(dailySales * leadTime * 1.5), dailySales the units sold
\* in the last 30 days / 30 and leadTime 7 when the supplier gives none; it
\* is an integer >= 0
C17_RecommendedOrderFormula ==
  \A i \in Suggested :
    /\ engine.items[i].recommendedOrder = ExactRecommendedOrder(engine.catalog[i])
    /\ engine.items[i].recommendedOrder \in Nat

\* the priority of p by first match, on the unrounded days of stock
ExactPriority(p) ==
  IF p.stock <= p.reorderPoint \/ DaysBelow(p, 7) THEN "high"
  ELSE IF 2 * p.stock <= 3 * p.reorderPoint \/ DaysBelow(p, 14) THEN "medium"
  ELSE "low"

\* C18: the priority is high iff stock <= reorderPoint or daysOfStock < 7,
\* otherwise medium iff stock <= 1.5 * reorderPoint or daysOfStock < 14,
\* otherwise low, daysOfStock being the unrounded stock / dailySales or the
\* sentinel of a product without sales
C18_PriorityFirstMatch ==
  \A i \in Suggested : engine.items[i].priority = ExactPriority(engine.catalog[i])

\* a product above 1.5 times its reorder point is medium for its 10 days of
\* stock
C18_Witness ==
  /\ engine.catalog = <<[stock |-> 50, reorderPoint |-> 10, totalQuantity |-> 150,
                       leadTime |-> 0, price |-> 2]>>
  /\ Len(engine.items) = 1
  /\ engine.items[1].priority = "medium"
  /\ engine.items[1].daysOfStock = 10

\* the products of scenario B: reorder point 10, 5 units sold a day, lead
\* time 7
ScenarioB(p) == p.reorderPoint = 10 /\ p.totalQuantity = 150 /\ LeadTimeOf(p) = 7

\* C19 (as claimed): in scenario B stock 100 is reported with 20 days of
\* stock and priority low, and every stock <= 15 with priority medium
C19_ScenarioBMedium ==
  \A i \in Suggested :
    LET p == engine.catalog[i]
        item == engine.items[i]
    IN ScenarioB(p)
         => /\ (p.stock = 100 => item.daysOfStock = 20 /\ item.priority = "low")
            /\ (p.stock <= 15 => item.priority = "medium")

\* C19 (amended): in scenario B stock 100 is reported with 20 days of stock
\* and priority low; every stock <= 15 is reported high, as every stock
\* below 35 (7 days of stock); medium is reported from 35 up to 69 and low
\* from 70 (14 days of stock) on
C19_ScenarioBTiers ==
  \A i \in Suggested :
    LET p == engine.catalog[i]
        item == engine.items[i]
    IN ScenarioB(p)
         => /\ (p.stock = 100 => item.daysOfStock = 20 /\ item.priority = "low")
            /\ (p.stock <= 15 => item.priority = "high")
            /\ item.priority = (IF p.stock < 35 THEN "high"
                                 ELSE IF p.stock < 70 THEN "medium" ELSE "low")

\* scenario B with stock 15 is reported high, with 3 days of stock
C19_Witness ==
  /\ engine.catalog = <<[stock |-> 15, reorderPoint |-> 10, totalQuantity |-> 150,
                       leadTime |-> 7, price |-> 2]>>
  /\ Len(engine.items) = 1
  /\ engine.items[1].priority = "high"
  /\ engine.items[1].daysOfStock = 3

\* the tiers in the order high < medium < low
Tier(pr) == IF pr = "high" THEN 0 ELSE IF pr = "medium" THEN 1 ELSE 2

\* the unrounded days of stock of p, as a fraction
Days(p) ==
  IF p.totalQuantity > 0 THEN [num |-> SalesWindowDays * p.stock, den |-> p.totalQuantity]
  ELSE IF p.stock > 0 THEN [num |-> SentinelDays, den |-> 1]
  ELSE [num |-> 0, den |-> 1]

DaysLess(p, q) == Days(p).num * Days(q).den < Days(q).num * Days(p).den

\* C20 (as claimed): of two products with the same reorder point, the one
\* with the smaller days of stock has no less urgent tier
C20_MonotoneInDays ==
  \A i, j \in Suggested :
    (/\ engine.catalog[i].reorderPoint = engine.catalog[j].reorderPoint
     /\ DaysLess(engine.catalog[i], engine.catalog[j]))
      => Tier(engine.items[i].priority) <= Tier(engine.items[j].priority)

\* C20 (amended): of two products with the same reorder point, one whose
\* stock and whose days of stock are both no larger than the other's has no
\* less urgent tier
C20_MonotoneInStockAndDays ==
  \A i, j \in Suggested :
    (/\ engine.catalog[i].reorderPoint = engine.catalog[j].reorderPoint
     /\ engine.catalog[i].stock <= engine.catalog[j].stock
     /\ ~DaysLess(engine.catalog[j], engine.catalog[i]))
      => Tier(engine.items[i].priority) <= Tier(engine.items[j].priority)

\* two products of one reorder point: the first has less stock and fewer
\* days of stock than the second and a more urgent tier
C20_Witness ==
  /\ Len(engine.items) = 2
  /\ engine.catalog[1].reorderPoint = engine.catalog[2].reorderPoint
  /\ engine.catalog[1].stock < engine.catalog[2].stock
  /\ DaysLess(engine.catalog[1], engine.catalog[2])
  /\ engine.catalog[1].totalQuantity > 0 /\ engine.catalog[2].totalQuantity > 0
  /\ Tier(engine.items[1].priority) < Tier(engine.items[2].priority)

(* ---------------------------- properties of the suggestion list ------- *)
\* the item is an element of the returned list
Listed(item) == \E k \in 1..Len(engine.lowStock) : engine.lowStock[k] = item

\* stock <= reorderPoint or daysOfStock < 14 or recommendedOrder > 0, the
\* days of stock unrounded
NeedsAttention(p, item) ==
  p.stock <= p.reorderPoint \/ DaysBelow(p, 14) \/ item.recommendedOrder > 0

\* C21: a product of the catalog is in the returned list iff
\* stock <= reorderPoint or daysOfStock < 14 or recommendedOrder > 0 (with
\* the unrounded and with the reported days of stock alike); the list has
\* one item for each such product and no other item
C21_ListedIffNeedsAttention ==
  /\ \A i \in Suggested :
       /\ Listed(engine.items[i]) <=> NeedsAttention(engine.catalog[i], engine.items[i])
       /\ NeedsAttention(engine.catalog[i], engine.items[i])
            <=> \/ engine.items[i].currentStock <= engine.items[i].reorderPoint
                \/ engine.items[i].daysOfStock < 14
                \/ engine.items[i].recommendedOrder > 0
  /\ Len(engine.lowStock)
       = Cardinality({i \in Suggested : NeedsAttention(engine.catalog[i], engine.items[i])})
  /\ \A k \in 1..Len(engine.lowStock) : \E i \in Suggested : engine.items[i] = engine.lowStock[k]

\* a catalog of three products: one is listed for its recommended order
\* alone, one is omitted
C21_Witness ==
  /\ Len(engine.items) = 3
  /\ Len(engine.lowStock) = 2
  /\ \E i \in Suggested :
       /\ Listed(engine.items[i])
       /\ engine.items[i].currentStock > engine.items[i].reorderPoint
       /\ engine.items[i].daysOfStock >= 14
       /\ engine.items[i].recommendedOrder > 0
  /\ \E i \in Suggested : ~Listed(engine.items[i])

\* C22: in the returned list every high item precedes every medium item and
\* every medium item every low item, and the items of one tier are in
\* non-decreasing (reported) days of stock
C22_SortedByTierThenDays ==
  \A k, l \in 1..Len(engine.lowStock) :
    k < l => /\ Tier(engine.lowStock[k].priority) <= Tier(engine.lowStock[l].priority)
             /\ engine.lowStock[k].priority = engine.lowStock[l].priority
                  => engine.lowStock[k].daysOfStock <= engine.lowStock[l].daysOfStock

\* three listed products the catalog holds in another order: two medium
\* items with different days of stock behind a high item
C22_Witness ==
  /\ Len(engine.lowStock) = 3
  /\ engine.lowStock[1] = engine.items[3]
  /\ engine.lowStock[2] = engine.items[2]
  /\ engine.lowStock[1].priority = "high"
  /\ engine.lowStock[2].priority = "medium"
  /\ engine.lowStock[3].priority = "medium"
  /\ engine.lowStock[2].daysOfStock < engine.lowStock[3].daysOfStock

\* the sum of stock * price over the listed products of the catalog
RECURSIVE ListedValue(_)
ListedValue(i) ==
  IF i = 0 THEN 0
  ELSE ListedValue(i - 1)
         + (IF Listed(engine.items[i])
              THEN engine.catalog[i].stock * engine.catalog[i].price ELSE 0)

\* C23: the summary counts the listed items of each tier, the three counts
\* summing to the length of the list, and its totalValue is the sum of
\* currentStock * price over the listed products
C23_SummaryOfListedItems ==
  engine.summary.kind = "summary"
    => /\ engine.summary.highPriority
            = Cardinality({k \in 1..Len(engine.lowStock) : engine.lowStock[k].priority = "high"})
       /\ engine.summary.mediumPriority
            = Cardinality({k \in 1..Len(engine.lowStock) : engine.lowStock[k].priority = "medium"})
       /\ engine.summary.lowPriority
            = Cardinality({k \in 1..Len(engine.lowStock) : engine.lowStock[k].priority = "low"})
       /\ engine.summary.highPriority + engine.summary.mediumPriority
            + engine.summary.lowPriority = Len(engine.lowStock)
       /\ engine.summary.totalValue = ListedValue(Len(engine.items))

(* ---------------------------- properties of the sales series ---------- *)
\* the routes that answer with a series
SeriesRoutes == {"sales-trends", "weekly-sales", "monthly-sales"}

\* the order counts as a sale of user u
Qualifying(o, u) == o.userId = u /\ o.status \in {"processing", "shipped", "delivered"}

\* the start of the window the route looks back over
WindowStart(route) ==
  IF route = "sales-trends" THEN (now \div 2 - 30) * 2
  ELSE IF route = "weekly-sales" THEN now - 6 * 2
  ELSE now - 30 * 2

\* the sum of the sequence f over its indices in the set S
RECURSIVE SumUpTo(_, _, _)
SumUpTo(S, f, n) ==
  IF n = 0 THEN 0 ELSE (IF n \in S THEN f[n] ELSE 0) + SumUpTo(S, f, n - 1)

SumOver(S, f) == SumUpTo(S, f, Len(f))

\* the qualifying orders of user u created from time start on, and those of
\* them created on day d
SalesOf(u, start) ==
  {i \in 1..Len(orders) : Qualifying(orders[i], u) /\ orders[i].createdAt >= start}
SalesOfDay(u, start, d) == {i \in SalesOf(u, start) : orders[i].createdAt \div 2 = d}

\* the units of product p in order i
UnitsOf(i, p) ==
  LET items == orders[i].items
      qty == [k \in 1..Len(items) |->
                IF items[k].product = p THEN items[k].quantity ELSE 0]
  IN SumOver(1..Len(items), qty)

\* the answer of the last request counts exactly the qualifying orders of the
\* requesting user inside the window
SalesReadIsExact ==
  LET u == req.user
      amount == [i \in 1..Len(orders) |-> orders[i].totalAmount]
  IN /\ req.op \in SeriesRoutes
          => LET start == WindowStart(req.op)
             IN /\ \A k \in 1..Len(body.points) :
                      LET day == SalesOfDay(u, start, body.points[k].date)
                      IN /\ body.points[k].orderCount = Cardinality(day)
                         /\ body.points[k].totalSales = SumOver(day, amount)
                /\ \A k, l \in 1..Len(body.points) :
                     body.points[k].date = body.points[l].date => k = l
                /\ \A i \in SalesOf(u, start) :
                     \E k \in 1..Len(body.points) :
                       body.points[k].date = orders[i].createdAt \div 2
     /\ req.op = "reorder-suggestions"
          => \A i \in 1..Len(engine.catalog) :
               LET p == ProductList[i]
                   units == [j \in 1..Len(orders) |-> UnitsOf(j, p)]
                   sold == SumOver(SalesOf(u, now - 30 * 2), units)
               IN /\ engine.catalog[i].totalQuantity = sold
                  /\ engine.items[i].dailySales = (200 * sold + 30) \div 60

WindowDays(route) ==
  IF route = "weekly-sales" THEN (now \div 2 - 6)..(now \div 2)
  ELSE (now \div 2 - 30)..(now \div 2)

\* the qualifying orders of user u created on calendar day d
SalesOnDay(u, d) ==
  {i \in 1..Len(orders) : Qualifying(orders[i], u) /\ orders[i].createdAt \div 2 = d}

\* the series of the last request has one point for each day of the window
\* and no other point, and the point of a day holds the count and the total
\* of the qualifying orders created that day
SeriesIsDense ==
  LET amount == [i \in 1..Len(orders) |-> orders[i].totalAmount]
  IN /\ \A d \in WindowDays(req.op) :
          \E k \in 1..Len(body.points) :
            /\ body.points[k].date = d
            /\ body.points[k].orderCount = Cardinality(SalesOnDay(req.user, d))
            /\ body.points[k].totalSales = SumOver(SalesOnDay(req.user, d), amount)
     /\ \A k, l \in 1..Len(body.points) :
          /\ body.points[k].date \in WindowDays(req.op)
          /\ body.points[k].date = body.points[l].date => k = l

\* C25: every sales series holds exactly one data point for each calendar day
\* of its window, with the total and the count of the qualifying orders
\* created that day, zeros for a day without qualifying order
C25_DenseSeries ==
  [][(req'.op \in SeriesRoutes /\ now' = now) => SeriesIsDense']_vars

(* ---------------------------- properties of the AI endpoints ---------- *)
\* C26: a request whose AI call failed (service error, invalid response,
\* missing configuration) is answered with the formula-based fallback result
\* and never with an error status
C26_AIFailureFallsBack ==
  (ai.pc = "done" /\ ai.failure # "none")
    => ai.resp.code = 200 /\ ai.resp.source = "fallback"

\* C27: a request that waits for the AI service is eventually answered, and
\* while it waits the order requests are served
C27_AIWaitIsBounded ==
  /\ (ai.pc = "waiting") ~> (ai.pc = "done")
  /\ [](ai.pc = "waiting" => ENABLED UpdateStatus("u1", 1, "delivered"))

(* ---------------------------- properties of concurrent updates -------- *)
\* C28: when two concurrent status updates of the order were both answered
\* with success, its quantities are out of the stock exactly when its stored
\* status is not cancelled: every transition into cancelled restored them
\* once and every transition out of cancelled deducted them once
C28_StatusUpdatesAtomic ==
  (\A pr \in Procs : procs[pr].pc = "done" /\ procs[pr].resp.code = 200)
    => \A p \in Products :
         stock[p] = InitStock - (IF orders[1].status = "cancelled" THEN 0
                                 ELSE OrderedQty(orders[1].items, p))

(* ---------------------------- properties of stock conservation -------- *)
\* total quantity of product p in the line items of the orders 1..n that are
\* not cancelled
RECURSIVE CommittedQty(_, _, _)
CommittedQty(ords, p, n) ==
  IF n = 0 THEN 0
  ELSE (IF ords[n].status # "cancelled" THEN OrderedQty(ords[n].items, p) ELSE 0)
       + CommittedQty(ords, p, n - 1)

\* the direct adjustment of product p that the request being answered applied
AppliedAdjustment(r, a, p) ==
  IF r.op = "stock" /\ a.code = 200 /\ r.product = p THEN r.quantity ELSE 0

\* C29: every request of a sequential run conserves stock: for each product,
\* stock plus the quantities of its line items in the orders that are not
\* cancelled changes by exactly the direct adjustment the request applied, so
\* that the sum always equals the initial stock plus the applied adjustments
C29_StockConservation ==
  [][\A p \in Products :
       stock'[p] + CommittedQty(orders', p, Len(orders'))
         = stock[p] + CommittedQty(orders, p, Len(orders))
           + AppliedAdjustment(req', resp', p)]_vars

(* ---------------------------- properties of order numbers ------------- *)
\* the request of process pr passed every check of the handler: its order
\* reached order.save()
PassedValidation(pr) ==
  /\ procs[pr].items # <<>>
  /\ Len(procs[pr].productUpdates) = Len(procs[pr].items)

\* C30: under every interleaving of two creations, a creation whose items
\* passed validation and whose order.save() returned is persisted (it is not
\* rejected), and no two stored orders have the same order number
C30_OrderNumbersNeverCollide ==
  /\ \A i, j \in 1..Len(orders) :
       i # j => orders[i].orderNumber # orders[j].orderNumber
  /\ \A pr \in Procs :
       (PassedValidation(pr) /\ procs[pr].pc \in {"saveStock", "respond", "done"})
         => /\ procs[pr].order \in 1..Len(orders)
            /\ procs[pr].resp.code # 500
====
